---- MODULE Spec2Model ----
(***************************************************************************)
(* Model of the zip-stream encoder (zip.c / zip.h) and of the varray it    *)
(* keeps its entries in (varray.c / varray.h).                             *)
(*                                                                         *)
(* The encoder state is the zip_t structure.  The output callback (the     *)
(* sink) and zlib (deflate, deflateReset, crc32) are the environment: the  *)
(* sink accepts or rejects each call, the adapter produces an arbitrary    *)
(* number of output bytes per call or reports an error.  The variable out  *)
(* records every buffer the sink accepted, in order; last records the      *)
(* call that produced the current state and what it returned.              *)
(***************************************************************************)
EXTENDS Integers, Sequences, FiniteSets, TLC

(***************************************************************************)
(* Program constants.                                                      *)
(***************************************************************************)
ZIP_INTERNAL_BUFFER_SIZE == 4096
ZIP_ENTRY_MAX_NAME_LEN == 127

SIG_LOCAL_FILE_HEADER == 67324752
SIG_CENTRAL_DIR == 33639248
SIG_EOCD == 101010256
SIG_DATA_DESC == 134695760

(***************************************************************************)
(* Bounds of the model.                                                    *)
(***************************************************************************)
MaxEntries == 2
MaxFails == 1
MaxEnds == 1
MaxFull == 1
MaxSize == 2

(***************************************************************************)
(* Inputs.  A file name is a C string: a sequence of non-zero bytes.       *)
(***************************************************************************)
LongName == [i \in 1..130 |-> 97 + (i % 26)]
FileNames == { <<97>>, LongName }

Datetimes ==
  { [year |-> 2024, month |-> 1, day |-> 15, hours |-> 10, minutes |-> 30, seconds |-> 1] }

DataBufs == { <<>>, <<97>> }

\* out_size of a deflate call that leaves room in the output buffer, by
\* flush mode: with Z_NO_FLUSH the adapter keeps the rest of its output
\* back, with Z_FINISH it ends the stream
PartialSizes(flush) == IF flush = "Z_NO_FLUSH" THEN {0} ELSE {3}

(***************************************************************************)
(* Fixed-width integers.  uint32_t values that are the result of a         *)
(* bitwise computation (the CRC) are kept as <<high half, low half>>.      *)
(***************************************************************************)
U16(n) == n % 65536

U32(n) == ((n \div 65536) % 65536) * 65536 + (n % 65536)

RECURSIVE Xor(_, _)
Xor(a, b) ==
  IF a = 0 THEN b
  ELSE IF b = 0 THEN a
  ELSE (((a % 2) + (b % 2)) % 2) + 2 * Xor(a \div 2, b \div 2)

\* one step of the reflected CRC-32 shift register (polynomial 0xEDB88320)
CrcShift(c) ==
  LET h == c[1] \div 2
      l == (c[2] \div 2) + (c[1] % 2) * 32768
  IN  IF c[2] % 2 = 1 THEN <<Xor(h, 60856), Xor(l, 33568)>> ELSE <<h, l>>

RECURSIVE CrcShiftN(_, _)
CrcShiftN(c, n) ==
  IF n = 0 THEN c
  ELSE LET s == CrcShift(c)       \* the test makes TLC compute s here
       IN  IF s = s THEN CrcShiftN(s, n - 1) ELSE s

RECURSIVE CrcBytes(_, _)
CrcBytes(c, data) ==
  IF data = <<>> THEN c
  ELSE LET s == CrcShiftN(<<c[1], Xor(c[2], Head(data))>>, 8)
       IN  IF s = s THEN CrcBytes(s, Tail(data)) ELSE s

\* zlib crc32(crc, buf, len); crc32(0, Z_NULL, 0) is the initial value 0
crc32(crc, data) ==
  LET c == CrcBytes(<<65535 - crc[1], 65535 - crc[2]>>, data)
  IN  <<65535 - c[1], 65535 - c[2]>>

crc32_init == <<0, 0>>

(***************************************************************************)
(* Little-endian serialisation: the byte arrays _write16_le and            *)
(* _write32_le hand to the output callback.                                *)
(***************************************************************************)
\* _write16_le with the most significant byte first
_write16_be(input) == << (input \div 256) % 256, input % 256 >>

_write16_le(input) == << input % 256, (input \div 256) % 256 >>

_write32_le(input) ==
  << input % 256, (input \div 256) % 256, (input \div 65536) % 256,
     (input \div 16777216) % 256 >>

\* _write32_le of a value kept as <<high half, low half>>
_write32_le_halves(c) ==
  << c[2] % 256, c[2] \div 256, c[1] % 256, c[1] \div 256 >>

\* one call of the output callback: the site that made it and the bytes
Buf(tag, bytes) == [tag |-> tag, len |-> Len(bytes), val |-> bytes]

\* a drained chunk of compressed data; its content is the adapter's
Chunk(out_size) == [tag |-> "deflate", len |-> out_size, val |-> <<>>]

\* WRITE_LE on a 16 bit and on a 32 bit field
WRITE_LE16(tag, n) == Buf(tag, _write16_le(n))
WRITE_LE32(tag, n) == Buf(tag, _write32_le(n))
WRITE_LE32H(tag, c) == Buf(tag, _write32_le_halves(c))

RECURSIVE SumLen(_)
SumLen(bufs) == IF bufs = <<>> THEN 0 ELSE Head(bufs).len + SumLen(Tail(bufs))

(***************************************************************************)
(* The sink.  Of the calls ws made in order, call number rej is rejected   *)
(* (rej = 0: none is); the calls before it were accepted.                  *)
(***************************************************************************)
Accepted(ws, rej) == IF rej = 0 THEN ws ELSE SubSeq(ws, 1, rej - 1)

SinkCalls(ws, rej) == IF rej = 0 THEN Len(ws) ELSE rej

(***************************************************************************)
(* MS-DOS date and time.                                                   *)
(***************************************************************************)
\* _get_dos_time storing the seconds, not the two-second units
_get_dos_time_whole(dt) ==
  (dt.seconds % 32) + (dt.minutes % 64) * 32 + (dt.hours % 32) * 2048

_get_dos_time(dt) ==
  ((dt.seconds \div 2) % 32) + (dt.minutes % 64) * 32 + (dt.hours % 32) * 2048

_get_dos_date(dt) ==
  (dt.day % 32) + (dt.month % 16) * 32 + ((dt.year - 1980) % 128) * 512

(***************************************************************************)
(* varray: a capacity and the elements stored (len is their number).       *)
(***************************************************************************)
\* _varray_init without the minimum of one element
_varray_init_raw(num_elems) == [capacity |-> num_elems, data |-> <<>>]

_varray_init(num_elems) ==
  [capacity |-> IF num_elems = 0 THEN 1 ELSE num_elems, data |-> <<>>]

varray_len(va) == Len(va.data)

\* _varray_resize with malloc in the place of realloc: the elements are lost
_varray_resize_fresh(va, n) == [capacity |-> n, data |-> <<>>]

_varray_resize(va, n) == [va EXCEPT !.capacity = n]

\* _va_double_size growing the array by one element
_va_double_size_next(va) == _varray_resize(va, varray_len(va) + 1)

_va_double_size(va) == _varray_resize(va, varray_len(va) * 2)

\* _resize_if_req growing only an array that is already over its capacity
_resize_if_req_late(va) ==
  IF va.capacity < varray_len(va) THEN _va_double_size(va) ELSE va

_resize_if_req(va) ==
  IF va.capacity <= varray_len(va) THEN _va_double_size(va) ELSE va

varray_push(va, elem) ==
  LET r == _resize_if_req(va) IN [r EXCEPT !.data = Append(r.data, elem)]

\* _varray_append doubling the capacity once
RequiredCap_once(cap, need) == IF cap < need THEN cap * 2 ELSE cap

\* the loop of _varray_append: the capacity doubled until it holds need
RECURSIVE RequiredCap(_, _)
RequiredCap(cap, need) ==
  IF cap < need THEN RequiredCap(cap * 2, need) ELSE cap

\* _varray_append reserving the room the elements need and no more
_varray_append_exact(va, elems) ==
  LET need == varray_len(va) + Len(elems)
      grown == IF need > va.capacity THEN [va EXCEPT !.capacity = need] ELSE va
  IN  [grown EXCEPT !.data = va.data \o elems]

_varray_append(va, elems) ==
  LET required_cap == RequiredCap(va.capacity, varray_len(va) + Len(elems))
      grown == IF required_cap > va.capacity
                 THEN [va EXCEPT !.capacity = required_cap] ELSE va
  IN  [grown EXCEPT !.data = va.data \o elems]

\* varray_pop taking the oldest element
varray_pop_first(va) == [va |-> [va EXCEPT !.data = Tail(va.data)], elem |-> Head(va.data)]

\* ( ptr )[--varray_len( ptr )]: the array after the call and the element
varray_pop(va) ==
  [va |-> [va EXCEPT !.data = SubSeq(va.data, 1, varray_len(va) - 1)],
   elem |-> va.data[varray_len(va)]]

\* varray_last reading the first element
varray_last_first(va) == va.data[1]

varray_last(va) == va.data[varray_len(va)]

(***************************************************************************)
(* State.                                                                  *)
(***************************************************************************)
VARIABLES
  entries,             \* z->entries, a varray of zip_entry_t
  bytes_written,       \* z->bytes_written
  central_dir_offset,  \* z->central_dir_offset
  entry_opened,        \* z->entry_opened
  stream,              \* z->stream: the adapter's input and output totals
  out,                 \* every buffer the sink accepted, in order
  last,                \* the last call: what it was and what it returned
  n_add_ok,            \* number of zip_entry_add calls that returned true
  fails,               \* number of calls that returned false
  given,               \* per entry: the name, the datetime and the data passed in
  rejects,             \* number of calls during which the sink rejected a buffer
  heap,                \* the blocks malloc returned and the addresses freed
  loop,                \* the calls _deflate made in the last call, in order
  pc                   \* where the caller is: between calls, or in a call

vars ==
  << entries, bytes_written, central_dir_offset, entry_opened, stream, out,
     last, n_add_ok, fails, given, rejects, heap, loop, pc >>

CUR_ENTRY == varray_last(entries)

zip_get_num_entries == varray_len(entries)

\* the encoder as a call finds it
Encoder ==
  [entries |-> entries, bytes_written |-> bytes_written,
   central_dir_offset |-> central_dir_offset, entry_opened |-> entry_opened,
   stream |-> stream]

\* what a call returned: ok, the encoder it found (pre), where its output
\* starts in out (mark), the number of sink calls and of adapter calls it
\* made, and its length argument
Ret(op, ok, calls, adapter, arg) ==
  [op |-> op, ok |-> ok, pre |-> Encoder, mark |-> Len(out), calls |-> calls,
   adapter |-> adapter, arg |-> arg]

Returns(r) ==
  /\ last' = r
  /\ fails' = IF r.ok THEN fails ELSE fails + 1

(***************************************************************************)
(* The heap.  An address is a block and a place in it: the base malloc     *)
(* returned, or the data member of the varray_t that starts the block.     *)
(* free of an address that is not the base of a live block is undefined:   *)
(* the allocator may ignore it, abort the process or corrupt its lists.    *)
(***************************************************************************)
Base(block) == [block |-> block, at |-> "base"]

\* _varray_init returns va->data, past the capacity and len members
va_data(block) == [block |-> block, at |-> "data"]

_va_header(ptr) == [block |-> ptr.block, at |-> "base"]

InvalidFree == {"ignored", "abort", "corrupt"}

EmptyHeap == [live |-> {}, freed |-> <<>>, status |-> "ok"]

malloc(h, block) == [h EXCEPT !.live = @ \cup {block}]

free(h, ptr, undefined) ==
  IF ptr.at = "base" /\ ptr.block \in h.live
    THEN [h EXCEPT !.live = @ \ {ptr.block}, !.freed = Append(@, ptr)]
    ELSE [h EXCEPT !.freed = Append(@, ptr), !.status = undefined]

\* zip_init with a sink and an adapter that initialises
Init ==
  /\ entries = _varray_init(1)
  /\ bytes_written = 0
  /\ central_dir_offset = 0
  /\ entry_opened = FALSE
  /\ stream = [total_in |-> 0, total_out |-> 0]
  /\ out = <<>>
  /\ last = Ret("zip_init", TRUE, 0, 1, 0)
  /\ n_add_ok = 0
  /\ fails = 0
  /\ given = <<>>
  /\ rejects = 0
  /\ heap = malloc(malloc(EmptyHeap, "out_buffer"), "entries")
  /\ loop = <<>>
  /\ pc = "idle"

(***************************************************************************)
(* zip_init from a zip_t nothing has been stored in.                       *)
(***************************************************************************)
Uninitialised ==
  /\ entries = [capacity |-> 0, data |-> <<>>]
  /\ bytes_written = 0
  /\ central_dir_offset = 0
  /\ entry_opened = FALSE
  /\ stream = [total_in |-> 0, total_out |-> 0]
  /\ out = <<>>
  /\ last = Ret("none", TRUE, 0, 0, 0)
  /\ n_add_ok = 0
  /\ fails = 0
  /\ given = <<>>
  /\ rejects = 0
  /\ heap = EmptyHeap
  /\ loop = <<>>
  /\ pc = "idle"

\* out_cb is "NULL" or a sink; init_ok is whether deflateInit2 returns Z_OK;
\* undefined is what an invalid free does
zip_init(out_cb, init_ok, undefined) ==
  IF out_cb = "NULL" THEN
    /\ Returns(Ret("zip_init", FALSE, 0, 0, 0))
    /\ UNCHANGED << entries, bytes_written, central_dir_offset, entry_opened,
                    stream, out, n_add_ok, heap >>
  ELSE
    LET buffered == malloc(heap, "out_buffer")
        listed == malloc(buffered, "entries")     \* in _varray_init
        z_out_buffer == Base("out_buffer")
        z_entries == va_data("entries")
    IN  /\ bytes_written' = 0
        /\ central_dir_offset' = 0
        /\ entry_opened' = FALSE
        /\ entries' = _varray_init(1)
        /\ stream' = [total_in |-> 0, total_out |-> 0]
        /\ heap' = IF init_ok THEN listed
                   ELSE free(free(listed, z_out_buffer, undefined),
                             z_entries, undefined)
        /\ Returns(Ret("zip_init", init_ok, 0, 1, 0))
        /\ UNCHANGED << out, n_add_ok >>

Initialize ==
  \E out_cb \in {"NULL", "sink"}, init_ok \in BOOLEAN, undefined \in InvalidFree :
    /\ last.op = "none"
    /\ out_cb = "NULL" => init_ok           \* deflateInit2 is not reached
    /\ init_ok => undefined = "ignored"     \* nor is free
    /\ zip_init(out_cb, init_ok, undefined)
    /\ UNCHANGED << given, rejects, loop, pc >>

(***************************************************************************)
(* What the caller and the sink saw of a call: the arguments kept per      *)
(* entry, and whether the sink rejected one of the call's buffers.         *)
(***************************************************************************)
SinkCounted ==
  rejects' = rejects + (IF last'.calls > Len(out') - Len(out) THEN 1 ELSE 0)

\* the call does not reach _deflate
NoDeflate == loop' = <<>>

GivenEntry(filename, datetime) ==
  given' = IF varray_len(entries') > varray_len(entries)
             THEN Append(given, [filename |-> filename, datetime |-> datetime,
                                 data |-> <<>>])
             ELSE given

\* every call that reaches _deflate folds its data into the entry
GivenData(data) ==
  given' = IF entry_opened /\ Len(data) > 0
             THEN [given EXCEPT ![Len(given)].data = @ \o data]
             ELSE given

(***************************************************************************)
(* zip_entry_add                                                           *)
(***************************************************************************)
\* zip_entry_add without the cap on the length of the name
TruncatedLen_none(filename) == Len(filename)

TruncatedLen(filename) ==
  IF Len(filename) > ZIP_ENTRY_MAX_NAME_LEN THEN ZIP_ENTRY_MAX_NAME_LEN
  ELSE Len(filename)

\* zip_entry_add taking the offset after the header is counted
NewEntry_after(filename, datetime) ==
  [ crc |-> crc32_init,
    size |-> 0,
    size_compressed |-> 0,
    name |-> SubSeq(filename, 1, TruncatedLen(filename)),
    offset |-> U32(bytes_written + 30 + TruncatedLen(filename)),
    date |-> _get_dos_date(datetime),
    time |-> _get_dos_time(datetime) ]

NewEntry(filename, datetime) ==
  [ crc |-> crc32_init,
    size |-> 0,
    size_compressed |-> 0,
    name |-> SubSeq(filename, 1, TruncatedLen(filename)),
    offset |-> U32(bytes_written),
    date |-> _get_dos_date(datetime),
    time |-> _get_dos_time(datetime) ]

\* the sink calls of the local file header, the file name last
\* the local file header passed to the sink as one buffer
LocalHeaderWrites_whole(entry, fname_length) ==
  << Buf("lfh",
         _write32_le(SIG_LOCAL_FILE_HEADER) \o _write16_le(20)
           \o _write16_le(8) \o _write16_le(8) \o _write16_le(entry.time)
           \o _write16_le(entry.date) \o _write32_le(0) \o _write32_le(0)
           \o _write32_le(0) \o _write16_le(U16(fname_length))
           \o _write16_le(0) \o SubSeq(entry.name, 1, U16(fname_length))) >>

LocalHeaderWrites(entry, fname_length) ==
  << WRITE_LE32("lfh.signature", SIG_LOCAL_FILE_HEADER),
     WRITE_LE16("lfh.extract_version", 20),
     WRITE_LE16("lfh.flags", 8),
     WRITE_LE16("lfh.method", 8),
     WRITE_LE16("lfh.modif_time", entry.time),
     WRITE_LE16("lfh.modif_date", entry.date),
     WRITE_LE32("lfh.crc", 0),
     WRITE_LE32("lfh.compressed_size", 0),
     WRITE_LE32("lfh.uncompressed_size", 0),
     WRITE_LE16("lfh.fname_length", U16(fname_length)),
     WRITE_LE16("lfh.extra_field_length", 0),
     Buf("lfh.name", SubSeq(entry.name, 1, U16(fname_length))) >>

\* deflateReset
StreamReset(s) == [total_in |-> 0, total_out |-> 0]

AddSequencingError ==
  /\ Returns(Ret("zip_entry_add", FALSE, 0, 0, 0))
  /\ UNCHANGED << entries, bytes_written, central_dir_offset, entry_opened,
                  stream, out, n_add_ok >>

\* zip_entry_add setting entry_opened before the header is written
AddRejected_opens(ws, rej) ==
  /\ out' = out \o Accepted(ws, rej)
  /\ entry_opened' = TRUE
  /\ Returns(Ret("zip_entry_add", FALSE, SinkCalls(ws, rej), 0, 0))
  /\ UNCHANGED << entries, bytes_written, central_dir_offset, stream, n_add_ok >>

AddRejected(ws, rej) ==
  /\ out' = out \o Accepted(ws, rej)
  /\ Returns(Ret("zip_entry_add", FALSE, SinkCalls(ws, rej), 0, 0))
  /\ UNCHANGED << entries, bytes_written, central_dir_offset, entry_opened,
                  stream, n_add_ok >>

\* zip_entry_add undoing the entry when deflateReset fails
AddWritten_undone(entry, ws, reset_ok) ==
  /\ out' = out \o ws
  /\ entry_opened' = reset_ok
  /\ entries' = IF reset_ok THEN varray_push(entries, entry) ELSE entries
  /\ bytes_written' = IF reset_ok THEN bytes_written + SumLen(ws)
                      ELSE bytes_written
  /\ stream' = IF reset_ok THEN StreamReset(stream) ELSE stream
  /\ n_add_ok' = IF reset_ok THEN n_add_ok + 1 ELSE n_add_ok
  /\ Returns(Ret("zip_entry_add", reset_ok, Len(ws), 1, 0))
  /\ UNCHANGED central_dir_offset

AddWritten(entry, ws, reset_ok) ==
  /\ out' = out \o ws
  /\ entry_opened' = TRUE
  /\ entries' = varray_push(entries, entry)
  /\ bytes_written' = bytes_written + SumLen(ws)
  /\ stream' = IF reset_ok THEN StreamReset(stream) ELSE stream
  /\ n_add_ok' = IF reset_ok THEN n_add_ok + 1 ELSE n_add_ok
  /\ Returns(Ret("zip_entry_add", reset_ok, Len(ws), 1, 0))
  /\ UNCHANGED central_dir_offset

\* zip_entry_add without the check of entry_opened
zip_entry_add_unguarded(filename, datetime, rej, reset_ok) ==
  LET entry == NewEntry(filename, datetime)
      ws == LocalHeaderWrites(entry, TruncatedLen(filename))
  IN  IF rej # 0 THEN AddRejected(ws, rej) ELSE AddWritten(entry, ws, reset_ok)

zip_entry_add(filename, datetime, rej, reset_ok) ==
  IF entry_opened THEN AddSequencingError
  ELSE LET entry == NewEntry(filename, datetime)
           ws == LocalHeaderWrites(entry, TruncatedLen(filename))
       IN  IF rej # 0 THEN AddRejected(ws, rej)
           ELSE AddWritten(entry, ws, reset_ok)

OpenEntry ==
  \E filename \in FileNames, datetime \in Datetimes, rej \in 0..12,
     reset_ok \in BOOLEAN :
    /\ ~entry_opened => varray_len(entries) < MaxEntries
    /\ (entry_opened \/ rej # 0 \/ ~reset_ok) => fails < MaxFails
    /\ rej # 0 => reset_ok                \* deflateReset is not reached
    /\ entry_opened => (rej = 0 /\ reset_ok) \* nor is the sink
    /\ zip_entry_add(filename, datetime, rej, reset_ok)
    /\ GivenEntry(filename, datetime)
    /\ SinkCounted
    /\ NoDeflate
    /\ UNCHANGED << heap, pc >>

(***************************************************************************)
(* _deflate.  A run of the adapter and the sink over one call of _deflate: *)
(* full iterations that fill the output buffer and are accepted, then      *)
(*   "done"    an iteration that leaves room (size bytes), accepted;       *)
(*   "zerr"    deflate returns an error;                                   *)
(*   "reject"  an iteration of size bytes that the sink rejects.           *)
(***************************************************************************)
DeflateRuns(flush) ==
  [full : 0..MaxFull, end : {"done"}, size : PartialSizes(flush)]
    \cup [full : 0..MaxFull, end : {"zerr"}, size : {0}]
    \cup [full : 0..MaxFull, end : {"reject"},
          size : PartialSizes(flush) \cup {ZIP_INTERNAL_BUFFER_SIZE}]

\* the model lets the adapter fill MaxFull output buffers per archive
WithinFull(run) ==
  bytes_written + run.full * ZIP_INTERNAL_BUFFER_SIZE
    < (MaxFull + 1) * ZIP_INTERNAL_BUFFER_SIZE

\* the run given where _deflate is not reached
NoRun == [full |-> 0, end |-> "zerr", size |-> 0]

\* the chunks the sink accepted during the run
DrainedChunks(run) ==
  [i \in 1..run.full |-> Chunk(ZIP_INTERNAL_BUFFER_SIZE)]
    \o (IF run.end = "done" THEN <<Chunk(run.size)>> ELSE <<>>)

DeflateSinkCalls(run) == run.full + (IF run.end = "zerr" THEN 0 ELSE 1)

DeflateAdapterCalls(run) == run.full + 1

\* one turn of the loop: deflate leaves out_size bytes in z->out_buffer and
\* out_cb is called with them
DeflateIteration(out_size, accepted) ==
  << [call |-> "deflate", len |-> out_size, ok |-> TRUE],
     [call |-> "out_cb", len |-> out_size, ok |-> accepted] >>

RECURSIVE FullIterations(_)
FullIterations(n) ==
  IF n = 0 THEN <<>>
  ELSE FullIterations(n - 1) \o DeflateIteration(ZIP_INTERNAL_BUFFER_SIZE, TRUE)

\* _deflate handing the sink what the adapter produced after the loop
DeflateTrace_batched(run) ==
  [i \in 1..(run.full + 1) |->
     [call |-> "deflate",
      len |-> IF i <= run.full THEN ZIP_INTERNAL_BUFFER_SIZE ELSE run.size,
      ok |-> (i <= run.full \/ run.end # "zerr")]]
    \o (IF run.end = "zerr" /\ run.full = 0 THEN <<>>
        ELSE << [call |-> "out_cb",
                 len |-> run.full * ZIP_INTERNAL_BUFFER_SIZE + run.size,
                 ok |-> run.end # "reject"] >>)

\* the calls _deflate makes during the run, in the order of the loop
DeflateTrace(run) ==
  FullIterations(run.full)
    \o (IF run.end = "zerr"
          THEN << [call |-> "deflate", len |-> 0, ok |-> FALSE] >>
          ELSE DeflateIteration(run.size, run.end = "done"))

\* the calls of a call that reaches _deflate: the adapter was invoked
Deflated(run) ==
  loop' = IF last'.adapter > 0 THEN DeflateTrace(run) ELSE <<>>

\* _deflate counting the compressed bytes once, after the loop
DeflateEntries_lastchunk(ents, data_len, run) ==
  LET n == varray_len(ents)
      cur == ents.data[n]
  IN  [ents EXCEPT
         !.data[n].size = U32(cur.size + data_len),
         !.data[n].size_compressed =
            U32(cur.size_compressed + (IF run.end = "done" THEN run.size ELSE 0))]

\* _deflate with CUR_ENTRY the first element of the varray
DeflateEntries_first(ents, data_len, run) ==
  LET cur == ents.data[1]
  IN  [ents EXCEPT
         !.data[1].size = U32(cur.size + data_len),
         !.data[1].size_compressed =
            U32(cur.size_compressed + SumLen(DrainedChunks(run)))]

\* the entries after _deflate: the current entry's counters
DeflateEntries(ents, data_len, run) ==
  LET n == varray_len(ents)
      cur == ents.data[n]
  IN  [ents EXCEPT
         !.data[n].size = U32(cur.size + data_len),
         !.data[n].size_compressed =
            U32(cur.size_compressed + SumLen(DrainedChunks(run)))]

\* _deflate setting z->bytes_written to the bytes of this call
DeflateBytesWritten_assigned(bw, run) == SumLen(DrainedChunks(run))

DeflateBytesWritten(bw, run) == bw + SumLen(DrainedChunks(run))

\* the adapter after the run: input is taken by the first call that
\* succeeds, output is counted for every call that succeeds
DeflateStream(s, data_len, run) ==
  LET calls_ok == run.full + (IF run.end = "zerr" THEN 0 ELSE 1)
      produced == run.full * ZIP_INTERNAL_BUFFER_SIZE
                    + (IF run.end = "zerr" THEN 0 ELSE run.size)
  IN  [total_in |-> s.total_in + (IF calls_ok > 0 THEN data_len ELSE 0),
       total_out |-> s.total_out + produced]

(***************************************************************************)
(* zip_entry_update                                                        *)
(***************************************************************************)
\* zip_entry_update taking the CRC of each buffer from the seed
UpdateCrc_restart(ents, data) ==
  LET n == varray_len(ents)
  IN  [ents EXCEPT !.data[n].crc = crc32(crc32_init, data)]

UpdateCrc(ents, data) ==
  LET n == varray_len(ents)
  IN  [ents EXCEPT !.data[n].crc = crc32(ents.data[n].crc, data)]

UpdateSequencingError(data) ==
  /\ Returns(Ret("zip_entry_update", FALSE, 0, 0, Len(data)))
  /\ UNCHANGED << entries, bytes_written, central_dir_offset, entry_opened,
                  stream, out, n_add_ok >>

UpdateEmpty ==
  /\ Returns(Ret("zip_entry_update", TRUE, 0, 0, 0))
  /\ UNCHANGED << entries, bytes_written, central_dir_offset, entry_opened,
                  stream, out, n_add_ok >>

\* zip_entry_update taking the CRC and the size only when _deflate succeeds
UpdateData_committed(data, run) ==
  /\ entries' = IF run.end = "done"
                  THEN DeflateEntries(UpdateCrc(entries, data), Len(data), run)
                  ELSE DeflateEntries(entries, 0, run)
  /\ bytes_written' = DeflateBytesWritten(bytes_written, run)
  /\ stream' = DeflateStream(stream, Len(data), run)
  /\ out' = out \o DrainedChunks(run)
  /\ Returns(Ret("zip_entry_update", run.end = "done", DeflateSinkCalls(run),
                 DeflateAdapterCalls(run), Len(data)))
  /\ UNCHANGED << central_dir_offset, entry_opened, n_add_ok >>

UpdateData(data, run) ==
  /\ entries' = DeflateEntries(UpdateCrc(entries, data), Len(data), run)
  /\ bytes_written' = DeflateBytesWritten(bytes_written, run)
  /\ stream' = DeflateStream(stream, Len(data), run)
  /\ out' = out \o DrainedChunks(run)
  /\ Returns(Ret("zip_entry_update", run.end = "done", DeflateSinkCalls(run),
                 DeflateAdapterCalls(run), Len(data)))
  /\ UNCHANGED << central_dir_offset, entry_opened, n_add_ok >>

\* zip_entry_update without the check of data_len
zip_entry_update_noempty(data, run) ==
  IF ~entry_opened THEN UpdateSequencingError(data) ELSE UpdateData(data, run)

zip_entry_update(data, run) ==
  IF ~entry_opened THEN UpdateSequencingError(data)
  ELSE IF Len(data) = 0 THEN UpdateEmpty
  ELSE UpdateData(data, run)

\* the model feeds MaxSize bytes of data per archive
RECURSIVE TotalSize(_)
TotalSize(es) == IF es = <<>> THEN 0 ELSE Head(es).size + TotalSize(Tail(es))

UpdateEntry ==
  \E data \in DataBufs, run \in DeflateRuns("Z_NO_FLUSH") \cup {NoRun} :
    /\ WithinFull(run)
    /\ TotalSize(entries.data) + Len(data) <= MaxSize
    /\ (~entry_opened \/ (Len(data) > 0 /\ run.end # "done"))
         => fails < MaxFails
    /\ (~entry_opened \/ Len(data) = 0) => run = NoRun  \* _deflate is not reached
    /\ zip_entry_update(data, run)
    /\ GivenData(data)
    /\ SinkCounted
    /\ Deflated(run)
    /\ UNCHANGED << heap, pc >>

(***************************************************************************)
(* zip_entry_end                                                           *)
(***************************************************************************)
\* the data descriptor with the two sizes in the other order
DataDescriptorWrites_swapped(entry) ==
  << WRITE_LE32("dd.signature", SIG_DATA_DESC),
     WRITE_LE32H("dd.crc", entry.crc),
     WRITE_LE32("dd.compressed_size", entry.size),
     WRITE_LE32("dd.uncompressed_size", entry.size_compressed) >>

DataDescriptorWrites(entry) ==
  << WRITE_LE32("dd.signature", SIG_DATA_DESC),
     WRITE_LE32H("dd.crc", entry.crc),
     WRITE_LE32("dd.compressed_size", entry.size_compressed),
     WRITE_LE32("dd.uncompressed_size", entry.size) >>

\* zip_entry_end refusing the call when no entry is open
EndIdle_refused ==
  /\ Returns(Ret("zip_entry_end", FALSE, 0, 0, 0))
  /\ UNCHANGED << entries, bytes_written, central_dir_offset, entry_opened,
                  stream, out, n_add_ok >>

EndIdle ==
  /\ Returns(Ret("zip_entry_end", TRUE, 0, 0, 0))
  /\ UNCHANGED << entries, bytes_written, central_dir_offset, entry_opened,
                  stream, out, n_add_ok >>

EndFlushFailed(run) ==
  /\ out' = out \o DrainedChunks(run)
  /\ entry_opened' = entry_opened
  /\ Returns(Ret("zip_entry_end", FALSE, DeflateSinkCalls(run),
                 DeflateAdapterCalls(run), 0))

\* zip_entry_end clearing entry_opened before the descriptor is written
EndDescriptorRejected_closes(run, ws, rej) ==
  /\ out' = out \o DrainedChunks(run) \o Accepted(ws, rej)
  /\ entry_opened' = FALSE
  /\ Returns(Ret("zip_entry_end", FALSE,
                 DeflateSinkCalls(run) + SinkCalls(ws, rej),
                 DeflateAdapterCalls(run), 0))

EndDescriptorRejected(run, ws, rej) ==
  /\ out' = out \o DrainedChunks(run) \o Accepted(ws, rej)
  /\ entry_opened' = entry_opened
  /\ Returns(Ret("zip_entry_end", FALSE,
                 DeflateSinkCalls(run) + SinkCalls(ws, rej),
                 DeflateAdapterCalls(run), 0))

\* zip_entry_end writing the data descriptor before it drains the adapter
EndClosed_descfirst(run, ws) ==
  /\ out' = out \o ws \o DrainedChunks(run)
  /\ entry_opened' = FALSE
  /\ Returns(Ret("zip_entry_end", TRUE, DeflateSinkCalls(run) + Len(ws),
                 DeflateAdapterCalls(run), 0))

EndClosed(run, ws) ==
  /\ out' = out \o DrainedChunks(run) \o ws
  /\ entry_opened' = FALSE
  /\ Returns(Ret("zip_entry_end", TRUE, DeflateSinkCalls(run) + Len(ws),
                 DeflateAdapterCalls(run), 0))

zip_entry_end(run, rej) ==
  IF ~entry_opened THEN EndIdle
  ELSE
    LET ents == DeflateEntries(entries, 0, run)
        bw == DeflateBytesWritten(bytes_written, run)
        ws == DataDescriptorWrites(varray_last(ents))
        closed == run.end = "done" /\ rej = 0
    IN  /\ entries' = ents
        /\ stream' = DeflateStream(stream, 0, run)
        /\ bytes_written' = IF closed THEN bw + SumLen(ws) ELSE bw
        /\ UNCHANGED << central_dir_offset, n_add_ok >>
        /\ IF run.end # "done" THEN EndFlushFailed(run)
           ELSE IF rej # 0 THEN EndDescriptorRejected(run, ws, rej)
           ELSE EndClosed(run, ws)

CloseEntry ==
  \E run \in DeflateRuns("Z_FINISH") \cup {NoRun}, rej \in 0..4 :
    /\ WithinFull(run)
    /\ (entry_opened /\ (run.end # "done" \/ rej # 0)) => fails < MaxFails
    /\ ~entry_opened => (run = NoRun /\ rej = 0)  \* _deflate is not reached
    /\ run.end # "done" => rej = 0               \* the descriptor is not reached
    /\ zip_entry_end(run, rej)
    /\ SinkCounted
    /\ Deflated(run)
    /\ UNCHANGED << given, heap, pc >>

(***************************************************************************)
(* zip_end                                                                 *)
(***************************************************************************)
\* the sink calls of _write_cd_file_header, the file name last
\* _write_cd_file_header leaving crc at 0 as the local file header does
CdFileHeaderWrites_zerocrc(ents, entry_num) ==
  LET e == ents.data[entry_num]
      entry_name_len == Len(e.name)
  IN  << WRITE_LE32("cd.signature", SIG_CENTRAL_DIR),
         WRITE_LE16("cd.made_by", 0),
         WRITE_LE16("cd.extract_version", 20),
         WRITE_LE16("cd.flags", 8),
         WRITE_LE16("cd.method", 8),
         WRITE_LE16("cd.modif_time", e.time),
         WRITE_LE16("cd.modif_date", e.date),
         WRITE_LE32("cd.crc", 0),
         WRITE_LE32("cd.compressed_size", e.size_compressed),
         WRITE_LE32("cd.uncompressed_size", e.size),
         WRITE_LE16("cd.fname_length", U16(entry_name_len)),
         WRITE_LE16("cd.extra_field_length", 0),
         WRITE_LE16("cd.comment_length", 0),
         WRITE_LE16("cd.disk_num", 0),
         WRITE_LE16("cd.internal_attributes", 0),
         WRITE_LE32("cd.external_attributes", 0),
         WRITE_LE32("cd.local_header_offset", e.offset),
         Buf("cd.name", e.name) >>

CdFileHeaderWrites(ents, entry_num) ==
  LET e == ents.data[entry_num]
      entry_name_len == Len(e.name)
  IN  << WRITE_LE32("cd.signature", SIG_CENTRAL_DIR),
         WRITE_LE16("cd.made_by", 0),
         WRITE_LE16("cd.extract_version", 20),
         WRITE_LE16("cd.flags", 8),
         WRITE_LE16("cd.method", 8),
         WRITE_LE16("cd.modif_time", e.time),
         WRITE_LE16("cd.modif_date", e.date),
         WRITE_LE32H("cd.crc", e.crc),
         WRITE_LE32("cd.compressed_size", e.size_compressed),
         WRITE_LE32("cd.uncompressed_size", e.size),
         WRITE_LE16("cd.fname_length", U16(entry_name_len)),
         WRITE_LE16("cd.extra_field_length", 0),
         WRITE_LE16("cd.comment_length", 0),
         WRITE_LE16("cd.disk_num", 0),
         WRITE_LE16("cd.internal_attributes", 0),
         WRITE_LE32("cd.external_attributes", 0),
         WRITE_LE32("cd.local_header_offset", e.offset),
         Buf("cd.name", e.name) >>

\* the loop of zip_end running from the last entry to the first
RECURSIVE CdWrites_reversed(_, _)
CdWrites_reversed(ents, n) ==
  IF n = 0 THEN <<>>
  ELSE CdFileHeaderWrites(ents, n) \o CdWrites_reversed(ents, n - 1)

\* the sink calls of the loop of zip_end over the first n entries
RECURSIVE CdWrites(_, _)
CdWrites(ents, n) ==
  IF n = 0 THEN <<>> ELSE CdWrites(ents, n - 1) \o CdFileHeaderWrites(ents, n)

\* the sink calls of _write_eocd; bw is z->bytes_written when it is called
\* _write_eocd that reports the end of the central directory as its size
EocdWrites_abs(ents, bw, cd_offset) ==
  << WRITE_LE32("eocd.signature", SIG_EOCD),
     WRITE_LE16("eocd.disk_num", 0),
     WRITE_LE16("eocd.start_disk_num", 0),
     WRITE_LE16("eocd.num_entries_in_disk", U16(varray_len(ents))),
     WRITE_LE16("eocd.num_entries", U16(varray_len(ents))),
     WRITE_LE32("eocd.central_dir_size", U32(bw)),
     WRITE_LE32("eocd.offset", U32(cd_offset)),
     WRITE_LE16("eocd.comment_length", 0) >>

EocdWrites(ents, bw, cd_offset) ==
  << WRITE_LE32("eocd.signature", SIG_EOCD),
     WRITE_LE16("eocd.disk_num", 0),
     WRITE_LE16("eocd.start_disk_num", 0),
     WRITE_LE16("eocd.num_entries_in_disk", U16(varray_len(ents))),
     WRITE_LE16("eocd.num_entries", U16(varray_len(ents))),
     WRITE_LE32("eocd.central_dir_size", U32(bw - cd_offset)),
     WRITE_LE32("eocd.offset", U32(cd_offset)),
     WRITE_LE16("eocd.comment_length", 0) >>

\* number of central directory file headers written whole when call
\* number rej of zip_end is rejected
CdHeadersDone(ents, rej) ==
  LET n == varray_len(ents)
      per == 18
  IN  IF rej = 0 \/ rej > per * n THEN n ELSE (rej - 1) \div per

\* zip_end emptying the list of entries once they are written
zip_end_emptied(rej) ==
  IF entry_opened THEN
    /\ Returns(Ret("zip_end", FALSE, 0, 0, 0))
    /\ UNCHANGED << entries, bytes_written, central_dir_offset, entry_opened,
                    stream, out, n_add_ok >>
  ELSE
    LET n == varray_len(entries)
        cds == CdWrites(entries, n)
        bw_cd == bytes_written + SumLen(cds)
        ws == cds \o EocdWrites(entries, bw_cd, bytes_written)
    IN  /\ central_dir_offset' = bytes_written
        /\ out' = out \o Accepted(ws, rej)
        /\ bytes_written' =
             bytes_written + SumLen(CdWrites(entries, CdHeadersDone(entries, rej)))
        /\ entries' = IF rej = 0 THEN [entries EXCEPT !.data = <<>>] ELSE entries
        /\ Returns(Ret("zip_end", rej = 0, SinkCalls(ws, rej), 0, 0))
        /\ UNCHANGED << entry_opened, stream, n_add_ok >>

\* zip_end adding the end of central directory record to z->bytes_written
zip_end_counted(rej) ==
  IF entry_opened THEN
    /\ Returns(Ret("zip_end", FALSE, 0, 0, 0))
    /\ UNCHANGED << entries, bytes_written, central_dir_offset, entry_opened,
                    stream, out, n_add_ok >>
  ELSE
    LET n == varray_len(entries)
        cds == CdWrites(entries, n)
        bw_cd == bytes_written + SumLen(cds)
        ws == cds \o EocdWrites(entries, bw_cd, bytes_written)
    IN  /\ central_dir_offset' = bytes_written
        /\ out' = out \o Accepted(ws, rej)
        /\ bytes_written' = IF rej = 0 THEN bytes_written + SumLen(ws)
             ELSE bytes_written
                    + SumLen(CdWrites(entries, CdHeadersDone(entries, rej)))
        /\ Returns(Ret("zip_end", rej = 0, SinkCalls(ws, rej), 0, 0))
        /\ UNCHANGED << entries, entry_opened, stream, n_add_ok >>

\* zip_end keeping the offset it recorded in an earlier call
zip_end_once(rej) ==
  IF entry_opened THEN
    /\ Returns(Ret("zip_end", FALSE, 0, 0, 0))
    /\ UNCHANGED << entries, bytes_written, central_dir_offset, entry_opened,
                    stream, out, n_add_ok >>
  ELSE
    LET n == varray_len(entries)
        cds == CdWrites(entries, n)
        bw_cd == bytes_written + SumLen(cds)
        ws == cds \o EocdWrites(entries, bw_cd, bytes_written)
    IN  /\ central_dir_offset' = IF central_dir_offset = 0 THEN bytes_written
                                 ELSE central_dir_offset
        /\ out' = out \o Accepted(ws, rej)
        /\ bytes_written' =
             bytes_written + SumLen(CdWrites(entries, CdHeadersDone(entries, rej)))
        /\ Returns(Ret("zip_end", rej = 0, SinkCalls(ws, rej), 0, 0))
        /\ UNCHANGED << entries, entry_opened, stream, n_add_ok >>

zip_end(rej) ==
  IF entry_opened THEN
    /\ Returns(Ret("zip_end", FALSE, 0, 0, 0))
    /\ UNCHANGED << entries, bytes_written, central_dir_offset, entry_opened,
                    stream, out, n_add_ok >>
  ELSE
    LET n == varray_len(entries)
        cds == CdWrites(entries, n)
        bw_cd == bytes_written + SumLen(cds)
        ws == cds \o EocdWrites(entries, bw_cd, bytes_written)
    IN  /\ central_dir_offset' = bytes_written
        /\ out' = out \o Accepted(ws, rej)
        /\ bytes_written' =
             bytes_written + SumLen(CdWrites(entries, CdHeadersDone(entries, rej)))
        /\ Returns(Ret("zip_end", rej = 0, SinkCalls(ws, rej), 0, 0))
        /\ UNCHANGED << entries, entry_opened, stream, n_add_ok >>

\* number of end of central directory records written whole
NumEnds == Cardinality({i \in 1..Len(out) : out[i].tag = "eocd.comment_length"})

\* the calls of zip_end the model lets the sink reject: the first and the
\* last (the name) of each central directory file header, and the first and
\* the last of the end of central directory record
EndRejects(n) ==
  {18 * (i - 1) + 1 : i \in 1..n} \cup {18 * i : i \in 1..n}
    \cup {18 * n + 1, 18 * n + 8}

Finalize ==
  \E rej \in {0} \cup EndRejects(varray_len(entries)) :
    /\ ~entry_opened => NumEnds < MaxEnds
    /\ (entry_opened \/ rej # 0) => fails < MaxFails
    /\ entry_opened => rej = 0               \* the sink is not reached
    /\ zip_end(rej)
    /\ SinkCounted
    /\ NoDeflate
    /\ UNCHANGED << given, heap, pc >>

Next == OpenEntry \/ UpdateEntry \/ CloseEntry \/ Finalize

Spec == Init /\ [][Next]_vars

(***************************************************************************)
(* The same calls with a sink that accepts every buffer and an adapter     *)
(* that never fails: a call returns false only when it is made in the      *)
(* wrong state.  zip_end may return true MaxFinal times.                   *)
(***************************************************************************)
MaxFinal == 2

ShortNames == { <<97>>, <<98, 99>> }

\* the runs of _deflate that end with a buffer that is not full
DoneRuns(flush) == [full : 0..MaxFull, end : {"done"}, size : PartialSizes(flush)]

OpenNoFail ==
  \E filename \in ShortNames, datetime \in Datetimes :
    /\ ~entry_opened => varray_len(entries) < MaxEntries
    /\ entry_opened => fails < MaxFails
    /\ zip_entry_add(filename, datetime, 0, TRUE)
    /\ GivenEntry(filename, datetime)
    /\ SinkCounted
    /\ NoDeflate
    /\ UNCHANGED << heap, pc >>

UpdateNoFail ==
  \E data \in DataBufs, run \in DoneRuns("Z_NO_FLUSH") \cup {NoRun} :
    /\ WithinFull(run)
    /\ TotalSize(entries.data) + Len(data) <= MaxSize
    /\ ~entry_opened => fails < MaxFails
    /\ run = NoRun <=> (~entry_opened \/ Len(data) = 0)
    /\ zip_entry_update(data, run)
    /\ GivenData(data)
    /\ SinkCounted
    /\ Deflated(run)
    /\ UNCHANGED << heap, pc >>

CloseNoFail ==
  \E run \in DoneRuns("Z_FINISH") \cup {NoRun} :
    /\ WithinFull(run)
    /\ run = NoRun <=> ~entry_opened
    /\ zip_entry_end(run, 0)
    /\ SinkCounted
    /\ Deflated(run)
    /\ UNCHANGED << given, heap, pc >>

FinalizeNoFail ==
  /\ ~entry_opened => NumEnds < MaxFinal
  /\ entry_opened => fails < MaxFails
  /\ zip_end(0)
  /\ SinkCounted
  /\ NoDeflate
  /\ UNCHANGED << given, heap, pc >>

NextNoFail == OpenNoFail \/ UpdateNoFail \/ CloseNoFail \/ FinalizeNoFail

SpecNoFail == Init /\ [][NextNoFail]_vars

(***************************************************************************)
(* The same calls with a sink that accepts every buffer and a deflateReset *)
(* that may fail in zip_entry_add; MaxRefused calls may return false, so   *)
(* that the calls after the failure are reached.                           *)
(***************************************************************************)
MaxRefused == 2

OpenReset ==
  \E filename \in ShortNames, datetime \in Datetimes, reset_ok \in BOOLEAN :
    /\ ~entry_opened => varray_len(entries) < MaxEntries
    /\ (entry_opened \/ ~reset_ok) => fails < MaxRefused
    /\ entry_opened => reset_ok              \* deflateReset is not reached
    /\ zip_entry_add(filename, datetime, 0, reset_ok)
    /\ GivenEntry(filename, datetime)
    /\ SinkCounted
    /\ NoDeflate
    /\ UNCHANGED << heap, pc >>

NextReset == OpenReset \/ UpdateNoFail \/ CloseNoFail

SpecReset == Init /\ [][NextReset]_vars

(***************************************************************************)
(* The same calls with the counters at the limits of the format.  The      *)
(* integers of the other specifications stay below 2^31, so here a size_t  *)
(* (taken as 64 bits wide) is four 16 bit digits, the most significant     *)
(* first, and a uint32_t is two, as the crc is kept.  An entry keeps its   *)
(* name and its three counters; out keeps the counter fields the sink has  *)
(* accepted since the state the specification starts from: the sizes of    *)
(* the data descriptor, the sizes and the offset of a central directory    *)
(* file header, the counts, the size and the offset of the end of central  *)
(* directory record.  The sink accepts every buffer, the adapter never     *)
(* fails and every call is made in the state it needs.  given keeps, per   *)
(* entry, the offset and the sizes as they are without a limit.            *)
(***************************************************************************)
MaxWide == 2

MaxCount == 65536

MaxWideFed == 1

MaxWideEnds == 1

\* an int as a size_t
Size(n) == << 0, 0, n \div 65536, n % 65536 >>

\* a + b on size_t
SizeAdd(a, b) ==
  LET s4 == a[4] + b[4]
      s3 == a[3] + b[3] + (s4 \div 65536)
      s2 == a[2] + b[2] + (s3 \div 65536)
      s1 == a[1] + b[1] + (s2 \div 65536)
  IN  << s1 % 65536, s2 % 65536, s3 % 65536, s4 % 65536 >>

\* a - b on size_t
SizeSub(a, b) ==
  LET d4 == a[4] - b[4]
      d3 == a[3] - b[3] + (d4 \div 65536)
      d2 == a[2] - b[2] + (d3 \div 65536)
      d1 == a[1] - b[1] + (d2 \div 65536)
  IN  << d1 % 65536, d2 % 65536, d3 % 65536, d4 % 65536 >>

\* a uint32_t operand converted to size_t
Wide32(h) == << 0, 0, h[1], h[2] >>

\* a size_t stored in a uint32_t that stops at its largest value
Narrow32_saturated(w) ==
  IF w[1] = 0 /\ w[2] = 0 THEN << w[3], w[4] >> ELSE << 65535, 65535 >>

\* a size_t stored in a uint32_t field
Narrow32(w) == << w[3], w[4] >>

\* uint32_t field += size_t value
AddTo32(field, n) == Narrow32(SizeAdd(Wide32(field), n))

\* the entry zip_entry_add initializes; bw is z->bytes_written
WideEntry(filename, bw) ==
  [name |-> SubSeq(filename, 1, TruncatedLen(filename)),
   offset |-> Narrow32(bw), size |-> << 0, 0 >>,
   size_compressed |-> << 0, 0 >>]

\* the limitless counters of an entry added when wide bytes had been written
TrueEntry(wide) ==
  [offset |-> wide, size |-> Size(0), size_compressed |-> Size(0), fed |-> 0]

\* the out_size of each turn of the loop of _deflate, for a call
WideRuns == { << 5 >>, << ZIP_INTERNAL_BUFFER_SIZE, 7 >> }

WideLens == { 1, 3 }

RECURSIVE SumSeq(_)
SumSeq(run) == IF run = <<>> THEN 0 ELSE Head(run) + SumSeq(Tail(run))

\* the loop of _deflate: z is the current entry and z->bytes_written
RECURSIVE WideDrain(_, _)
WideDrain(z, run) ==
  IF run = <<>> THEN z
  ELSE WideDrain(
         [entry |-> [z.entry EXCEPT !.size_compressed =
                                      AddTo32(@, Size(Head(run)))],
          bytes_written |-> SizeAdd(z.bytes_written, Size(Head(run)))],
         Tail(run))

\* _deflate
WideDeflate(data_len, run) ==
  WideDrain([entry |-> [CUR_ENTRY EXCEPT !.size = AddTo32(@, Size(data_len))],
             bytes_written |-> bytes_written], run)

\* the current entry replaced
SetCurEntry(e) == [entries EXCEPT !.data[varray_len(entries)] = e]

\* what a call of this specification returned and where its output starts
WideRet(op, ok) == [op |-> op, ok |-> ok, mark |-> Len(out)]

WideFrame == UNCHANGED << stream, n_add_ok, fails, rejects, heap, loop, pc >>

\* number of zip_end calls so far
WideEnds == Cardinality({i \in 1..Len(out) : out[i].tag = "eocd.offset"})

\* an entry being fed: nothing yet, or nearly 2^32 bytes in and out
WideStarts ==
  { [size |-> Size(0), size_compressed |-> Size(0)],
    [size |-> << 0, 0, 65535, 65534 >>, size_compressed |-> << 0, 0, 65535, 61436 >>],
    [size |-> << 0, 0, 65535, 65535 >>, size_compressed |-> << 0, 0, 3, 0 >>] }

\* the entries before the one being fed: none, or MaxCount - 1 empty ones
\* named "a", each 30 + 1 + 2 + 16 bytes of output; the entry fed after
\* these is the one nearly 2^32 bytes in and out
WideBefore == { 0, MaxCount - 1 }

EmptyWritten == 30 + 1 + 2 + 16

\* the capacity after n calls of varray_push on varray_init( 1 )
RECURSIVE PushedCapacity(_, _)
PushedCapacity(cap, n) == IF cap >= n THEN cap ELSE PushedCapacity(cap * 2, n)

WideInit ==
  \E before \in WideBefore, start \in WideStarts :
    /\ before > 0 => start.size_compressed[3] = 65535
    /\ entries =
         [capacity |-> PushedCapacity(1, before + 1),
          data |-> [i \in 1..(before + 1) |->
                      IF i <= before
                      THEN [name |-> << 97 >>,
                            offset |-> Narrow32(Size((i - 1) * EmptyWritten)),
                            size |-> << 0, 0 >>, size_compressed |-> << 0, 2 >>]
                      ELSE [name |-> << 97 >>,
                            offset |-> Narrow32(Size(before * EmptyWritten)),
                            size |-> Narrow32(start.size),
                            size_compressed |-> Narrow32(start.size_compressed)]]]
    /\ given =
         [i \in 1..(before + 1) |->
            IF i <= before
            THEN [offset |-> Size((i - 1) * EmptyWritten), size |-> Size(0),
                  size_compressed |-> Size(2), fed |-> 0]
            ELSE [offset |-> Size(before * EmptyWritten), size |-> start.size,
                  size_compressed |-> start.size_compressed, fed |-> 0]]
    /\ bytes_written =
         SizeAdd(Size((before * EmptyWritten) + 31), start.size_compressed)
    /\ central_dir_offset = Size(0)
    /\ entry_opened = TRUE
    /\ stream = [total_in |-> 0, total_out |-> 0]
    /\ out = <<>>
    /\ last = [op |-> IF start.size = Size(0) THEN "zip_entry_add"
                       ELSE "zip_entry_update",
               ok |-> TRUE, mark |-> 0]
    /\ n_add_ok = 0
    /\ fails = 0
    /\ rejects = 0
    /\ heap = malloc(malloc(EmptyHeap, "out_buffer"), "entries")
    /\ loop = <<>>
    /\ pc = "idle"

OpenWide ==
  \E filename \in ShortNames :
    /\ ~entry_opened
    /\ varray_len(entries) # MaxWide
    /\ varray_len(entries) # MaxCount
    /\ entries' = varray_push(entries, WideEntry(filename, bytes_written))
    /\ entry_opened' = TRUE
    /\ bytes_written' =
         SizeAdd(bytes_written, Size(30 + TruncatedLen(filename)))
    /\ given' = Append(given, TrueEntry(bytes_written))
    /\ last' = WideRet("zip_entry_add", TRUE)
    /\ UNCHANGED << central_dir_offset, out >>
    /\ WideFrame

UpdateWide ==
  \E data_len \in WideLens, run \in WideRuns :
    /\ entry_opened
    /\ given[Len(given)].fed < MaxWideFed
    /\ LET z == WideDeflate(data_len, run)
       IN  /\ entries' = SetCurEntry(z.entry)
           /\ bytes_written' = z.bytes_written
    /\ given' = [given EXCEPT ![Len(given)] =
                   [@ EXCEPT !.size = SizeAdd(@, Size(data_len)),
                             !.size_compressed = SizeAdd(@, Size(SumSeq(run))),
                             !.fed = @ + 1]]
    /\ last' = WideRet("zip_entry_update", TRUE)
    /\ UNCHANGED << central_dir_offset, entry_opened, out >>
    /\ WideFrame

\* the sizes in the data descriptor
WideDescriptor(e) ==
  << WRITE_LE32H("dd.compressed_size", e.size_compressed),
     WRITE_LE32H("dd.uncompressed_size", e.size) >>

CloseWide ==
  \E run \in WideRuns :
    /\ entry_opened
    /\ LET z == WideDeflate(0, run)
       IN  /\ entries' = SetCurEntry(z.entry)
           /\ out' = out \o WideDescriptor(z.entry)
           /\ bytes_written' = SizeAdd(z.bytes_written, Size(16))
    /\ entry_opened' = FALSE
    /\ given' = [given EXCEPT ![Len(given)].size_compressed =
                   SizeAdd(@, Size(SumSeq(run)))]
    /\ last' = WideRet("zip_entry_end", TRUE)
    /\ UNCHANGED central_dir_offset
    /\ WideFrame

\* the sizes and the offset in the central directory file headers of zip_end
WideDirectory(ents) ==
  [k \in 1..(3 * varray_len(ents)) |->
     LET e == ents.data[((k - 1) \div 3) + 1]
     IN  CASE k % 3 = 1 -> WRITE_LE32H("cd.compressed_size", e.size_compressed)
           [] k % 3 = 2 -> WRITE_LE32H("cd.uncompressed_size", e.size)
           [] OTHER     -> WRITE_LE32H("cd.local_header_offset", e.offset)]

\* the bytes _write_cd_file_header adds to z->bytes_written for the entries
\* first..final
RECURSIVE WideDirectorySize(_, _, _)
WideDirectorySize(ents, first, final) ==
  IF first > final THEN 0
  ELSE IF first = final THEN 46 + Len(ents.data[first].name)
  ELSE LET mid == (first + final) \div 2
       IN  WideDirectorySize(ents, first, mid) +
           WideDirectorySize(ents, mid + 1, final)

\* the counts, the size and the offset in the record of _write_eocd
WideEocd(ents, bw, cd_offset) ==
  << WRITE_LE16("eocd.num_entries_in_disk", U16(varray_len(ents))),
     WRITE_LE16("eocd.num_entries", U16(varray_len(ents))),
     WRITE_LE32H("eocd.central_dir_size", Narrow32(SizeSub(bw, cd_offset))),
     WRITE_LE32H("eocd.offset", Narrow32(cd_offset)) >>

FinalizeWide ==
  /\ ~entry_opened
  /\ WideEnds < MaxWideEnds
  /\ central_dir_offset' = bytes_written
  /\ bytes_written' =
       SizeAdd(bytes_written,
               Size(WideDirectorySize(entries, 1, varray_len(entries))))
  /\ out' = out \o WideDirectory(entries)
                \o WideEocd(entries, bytes_written', central_dir_offset')
  /\ last' = WideRet("zip_end", TRUE)
  /\ UNCHANGED << entries, entry_opened, given >>
  /\ WideFrame

NextWide == OpenWide \/ UpdateWide \/ CloseWide \/ FinalizeWide

SpecWide == WideInit /\ [][NextWide]_vars

(***************************************************************************)
(* The calls step by step, for the loop of _deflate: a call of             *)
(* zip_entry_update or zip_entry_end is the part before the loop, then one *)
(* step per turn of the loop, then (zip_entry_end) the data descriptor.    *)
(* The sink and the adapter never fail.  pc is where the caller is.  The   *)
(* adapter is assumed to leave room in the output buffer in the end        *)
(* (fairness of DrainLast), and a call in progress goes on.                *)
(***************************************************************************)
\* the run of one turn of the loop that leaves out_size bytes in out_buffer
Turn(out_size) == [full |-> 0, end |-> "done", size |-> out_size]

\* a loop that goes on whatever deflate left
LoopAgain_always(out_size) == TRUE

\* while( z->stream.avail_out == 0 )
LoopAgain(out_size) == out_size = ZIP_INTERNAL_BUFFER_SIZE

\* the flush argument of the _deflate in progress
Flush == IF pc = "zip_entry_update" THEN "Z_NO_FLUSH" ELSE "Z_FINISH"

OpenDrain ==
  \E filename \in ShortNames, datetime \in Datetimes :
    /\ pc = "idle"
    /\ ~entry_opened => varray_len(entries) < MaxEntries
    /\ entry_opened => fails < MaxFails
    /\ zip_entry_add(filename, datetime, 0, TRUE)
    /\ GivenEntry(filename, datetime)
    /\ SinkCounted
    /\ NoDeflate
    /\ UNCHANGED << heap, pc >>

\* zip_entry_update with data, or zip_entry_end, as far as the do of
\* _deflate: the CRC and the size of the entry are updated
DeflateBegin ==
  \E op \in {"zip_entry_update", "zip_entry_end"}, data \in DataBufs :
    /\ pc = "idle"
    /\ entry_opened
    /\ op = "zip_entry_update" =>
         (Len(data) > 0 /\ TotalSize(entries.data) + Len(data) <= MaxSize)
    /\ op = "zip_entry_end" => data = <<>>
    /\ entries' = DeflateEntries(IF op = "zip_entry_update"
                                   THEN UpdateCrc(entries, data) ELSE entries,
                                 Len(data), NoRun)
    /\ last' = Ret(op, FALSE, 0, 0, Len(data))     \* it has not returned
    /\ GivenData(data)
    /\ loop' = <<>>
    /\ pc' = op
    /\ UNCHANGED << bytes_written, central_dir_offset, entry_opened, stream,
                    out, n_add_ok, fails, rejects, heap >>

\* one turn of the loop: deflate leaves out_size bytes, the sink takes them,
\* the counters are updated and the condition of the loop is tested
DrainTurn(out_size) ==
  LET it == Turn(out_size)
      data_len == IF loop = <<>> THEN last.arg ELSE 0
  IN  /\ pc \in {"zip_entry_update", "zip_entry_end"}
      /\ Len(loop) \div 2 <= MaxFull
      /\ out_size = ZIP_INTERNAL_BUFFER_SIZE =>
           WithinFull([full |-> 1, end |-> "done", size |-> 0])
      /\ entries' = DeflateEntries(entries, 0, it)
      /\ bytes_written' = DeflateBytesWritten(bytes_written, it)
      /\ stream' = DeflateStream(stream, data_len, it)
      /\ out' = out \o DrainedChunks(it)
      /\ loop' = loop \o DeflateTrace(it)
      /\ last' = [last EXCEPT
                    !.calls = @ + 1, !.adapter = @ + 1,
                    !.ok = (~LoopAgain(out_size) /\ pc = "zip_entry_update")]
      /\ pc' = IF LoopAgain(out_size) THEN pc
               ELSE IF pc = "zip_entry_update" THEN "idle"
               ELSE "descriptor"
      /\ UNCHANGED << central_dir_offset, entry_opened, n_add_ok, fails, given,
                      rejects, heap >>

DrainFull == DrainTurn(ZIP_INTERNAL_BUFFER_SIZE)

DrainLast == \E out_size \in PartialSizes(Flush) : DrainTurn(out_size)

\* zip_entry_end after _deflate: the data descriptor, and the entry closed
WriteDescriptor ==
  LET ws == DataDescriptorWrites(CUR_ENTRY)
  IN  /\ pc = "descriptor"
      /\ out' = out \o ws
      /\ bytes_written' = bytes_written + SumLen(ws)
      /\ entry_opened' = FALSE
      /\ last' = [last EXCEPT !.calls = @ + Len(ws), !.ok = TRUE]
      /\ pc' = "idle"
      /\ UNCHANGED << entries, central_dir_offset, stream, n_add_ok, fails,
                      given, rejects, heap, loop >>

FinalizeDrain ==
  /\ pc = "idle"
  /\ ~entry_opened => NumEnds < MaxEnds
  /\ entry_opened => fails < MaxFails
  /\ zip_end(0)
  /\ SinkCounted
  /\ NoDeflate
  /\ UNCHANGED << given, heap, pc >>

NextDrain ==
  \/ OpenDrain \/ DeflateBegin \/ DrainFull \/ DrainLast \/ WriteDescriptor
  \/ FinalizeDrain

SpecDrain ==
  Init /\ [][NextDrain]_vars /\ WF_vars(DrainLast) /\ WF_vars(WriteDescriptor)

(***************************************************************************)
(* The same calls with data that can be split in several ways: buffers of  *)
(* up to two bytes out of two values, MaxFed bytes per archive.  The sink  *)
(* accepts every buffer; the adapter may fail in zip_entry_update.         *)
(***************************************************************************)
MaxFed == 3

SplitBufs == UNION { [1..n -> {97, 98}] : n \in 0..2 }

OpenSplit ==
  \E datetime \in Datetimes :
    /\ ~entry_opened
    /\ varray_len(entries) < MaxEntries
    /\ zip_entry_add(<<97>>, datetime, 0, TRUE)
    /\ GivenEntry(<<97>>, datetime)
    /\ SinkCounted
    /\ NoDeflate
    /\ UNCHANGED << heap, pc >>

UpdateSplit ==
  \E data \in SplitBufs,
     run \in {[full |-> 0, end |-> "done", size |-> 0], NoRun} :
    /\ entry_opened
    /\ TotalSize(entries.data) + Len(data) <= MaxFed
    /\ run = NoRun => (Len(data) = 0 \/ fails < MaxFails)
    /\ Len(data) = 0 => run = NoRun          \* _deflate is not reached
    /\ zip_entry_update(data, run)
    /\ GivenData(data)
    /\ SinkCounted
    /\ Deflated(run)
    /\ UNCHANGED << heap, pc >>

CloseSplit ==
  /\ entry_opened
  /\ zip_entry_end([full |-> 0, end |-> "done", size |-> 3], 0)
  /\ SinkCounted
  /\ Deflated([full |-> 0, end |-> "done", size |-> 3])
  /\ UNCHANGED << given, heap, pc >>

NextSplit == OpenSplit \/ UpdateSplit \/ CloseSplit

SpecSplit == Init /\ [][NextSplit]_vars

(***************************************************************************)
(* zip_entry_add over datetimes: the ends and the middle of the range of   *)
(* each member of struct zip_datetime, and the values next to a power of   *)
(* two that a mask or a shift would get wrong.                             *)
(***************************************************************************)
DateInputs ==
  [ year : {1980, 1981, 2043, 2044, 2107},
    month : {1, 7, 8, 12},
    day : {1, 15, 16, 31},
    hours : {0, 15, 16, 23},
    minutes : {0, 31, 32, 59},
    seconds : {0, 1, 2, 31, 32, 58, 59} ]

OpenDated ==
  \E datetime \in DateInputs :
    /\ zip_get_num_entries = 0
    /\ zip_entry_add(<<97>>, datetime, 0, TRUE)
    /\ GivenEntry(<<97>>, datetime)
    /\ SinkCounted
    /\ NoDeflate
    /\ UNCHANGED << heap, pc >>

SpecDate == Init /\ [][OpenDated]_vars

(***************************************************************************)
(* The varray on its own: varray_init, then varray_push, varray_append,    *)
(* varray_pop on an array that is not empty, and varray_last.  The array   *)
(* is kept in entries, its elements are numbers, given is the list of      *)
(* the calls made so far, and last.arg is the argument of the call or      *)
(* the element it returned.                                                *)
(***************************************************************************)
MaxOps == 5

InitCapacities == {0, 1, 3}

PushElems == {1, 2}

AppendElems == { <<>>, <<3, 4>>, <<5, 6, 7>> }

VarrayInit ==
  \E n \in InitCapacities :
    /\ entries = _varray_init(n)
    /\ bytes_written = 0
    /\ central_dir_offset = 0
    /\ entry_opened = FALSE
    /\ stream = [total_in |-> 0, total_out |-> 0]
    /\ out = <<>>
    /\ last = Ret("varray_init", TRUE, 0, 0, n)
    /\ n_add_ok = 0
    /\ fails = 0
    /\ given = << [op |-> "varray_init", arg |-> n] >>
    /\ rejects = 0
    /\ heap = malloc(EmptyHeap, "entries")
    /\ loop = <<>>
    /\ pc = "idle"

VarrayCalled(op, va, arg) ==
  /\ Len(given) <= MaxOps
  /\ entries' = va
  /\ last' = Ret(op, TRUE, 0, 0, arg)
  /\ given' = Append(given, [op |-> op, arg |-> arg])
  /\ UNCHANGED << bytes_written, central_dir_offset, entry_opened, stream, out,
                  n_add_ok, fails, rejects, heap, loop, pc >>

VarrayPush ==
  \E elem \in PushElems :
    VarrayCalled("varray_push", varray_push(entries, elem), elem)

VarrayAppend ==
  \E elems \in AppendElems :
    VarrayCalled("varray_append", _varray_append(entries, elems), elems)

VarrayPop ==
  /\ varray_len(entries) > 0
  /\ VarrayCalled("varray_pop", varray_pop(entries).va, varray_pop(entries).elem)

VarrayLast ==
  /\ varray_len(entries) > 0
  /\ VarrayCalled("varray_last", entries, varray_last(entries))

NextVarray == VarrayPush \/ VarrayAppend \/ VarrayPop \/ VarrayLast

SpecVarray == VarrayInit /\ [][NextVarray]_vars

(***************************************************************************)
(* The varray with varray_resize.  A capacity of 0 can be set; a           *)
(* varray_push or varray_append that stores an element outside the         *)
(* reserved storage is undefined (the write may go unnoticed, abort the    *)
(* process or corrupt the heap: heap.status), and a varray_append whose    *)
(* loop never ends does not return (pc stays in _varray_append).           *)
(***************************************************************************)
ResizeSizes == {0, 1, 2}

OutOfBounds == {"ignored", "abort", "corrupt"}

\* the loop of _varray_append ends: required_cap reaches need, unless a
\* turn leaves it as it was
RECURSIVE LoopEnds(_, _)
LoopEnds(cap, need) ==
  IF cap >= need THEN TRUE
  ELSE IF cap * 2 = cap THEN FALSE
  ELSE LoopEnds(cap * 2, need)

\* elements first .. first + n - 1 of the storage of va are written
OutOfStorage(va, first, n) == n > 0 /\ first + n > va.capacity

Running == pc = "idle" /\ heap.status \in {"ok", "ignored"}

\* the call returns with the array va, having written n elements from first
ResizeReturns(op, va, arg, first, n) ==
  /\ Running
  /\ Len(given) <= MaxOps
  /\ entries' = va
  /\ last' = Ret(op, TRUE, 0, 0, arg)
  /\ given' = Append(given, [op |-> op, arg |-> arg])
  /\ \E undefined \in OutOfBounds :
       heap' = IF OutOfStorage(va, first, n)
                 THEN [heap EXCEPT !.status = undefined] ELSE heap
  /\ UNCHANGED << bytes_written, central_dir_offset, entry_opened, stream, out,
                  n_add_ok, fails, rejects, loop, pc >>

ResizeResize ==
  \E n \in ResizeSizes :
    ResizeReturns("varray_resize", _varray_resize(entries, n), n, 0, 0)

ResizePush ==
  \E elem \in PushElems :
    ResizeReturns("varray_push", varray_push(entries, elem), elem,
                  varray_len(entries), 1)

ResizeAppend ==
  \E elems \in AppendElems :
    IF LoopEnds(entries.capacity, varray_len(entries) + Len(elems))
      THEN ResizeReturns("varray_append", _varray_append(entries, elems), elems,
                         varray_len(entries), Len(elems))
      ELSE /\ Running
           /\ Len(given) <= MaxOps
           /\ pc' = "_varray_append"
           /\ given' = Append(given, [op |-> "varray_append", arg |-> elems])
           /\ UNCHANGED << entries, bytes_written, central_dir_offset,
                           entry_opened, stream, out, last, n_add_ok, fails,
                           rejects, heap, loop >>

ResizePop ==
  /\ varray_len(entries) > 0
  /\ ResizeReturns("varray_pop", varray_pop(entries).va,
                   varray_pop(entries).elem, 0, 0)

NextResize == ResizeResize \/ ResizePush \/ ResizeAppend \/ ResizePop

SpecResize == VarrayInit /\ [][NextResize]_vars

\* zip_init has returned true
Constructed == last.op # "none" /\ ~(last.op = "zip_init" /\ ~last.ok)

NextInit == Initialize \/ (Constructed /\ Next)

SpecInit == Uninitialised /\ [][NextInit]_vars

(***************************************************************************)
(* Reading the sink's record.                                              *)
(***************************************************************************)
\* the buffers the sink accepted during the last call
Wrote == SubSeq(out, last.mark + 1, Len(out))

\* the sink rejected a call of the last call
Rejected == last.calls > Len(Wrote)

Le16Val(bytes) == bytes[1] + 256 * bytes[2]

Le32Val(bytes) ==
  bytes[1] + 256 * bytes[2] + 65536 * bytes[3] + 16777216 * bytes[4]

\* the positions in out of the buffers written by the site tag, in order
Positions(tag) ==
  SelectSeq([i \in 1..Len(out) |-> i], LAMBDA i : out[i].tag = tag)

\* the encoder is as the last call found it
Untouched == Encoder = last.pre

\* the last call returned without calling the sink or the adapter
NoCalls == last.calls = 0 /\ last.adapter = 0 /\ Wrote = <<>>

PreLen == varray_len(last.pre.entries)

(***************************************************************************)
(* C1: a successful zip_end writes one central directory file header per   *)
(* entry, in insertion order, the local_header_offset of the i-th being    *)
(* the offset recorded for the i-th entry, followed by the end record; and *)
(* when every call so far returned true, the number of entries is the      *)
(* number of zip_entry_add calls.                                          *)
(***************************************************************************)
C1_CentralDirectory ==
  (last.op = "zip_end" /\ last.ok) =>
    LET n == zip_get_num_entries
        w == Wrote
    IN  /\ Len(w) = 18 * n + 8
        /\ Len(SelectSeq(w, LAMBDA b : b.tag = "cd.signature")) = n
        /\ \A i \in 1..n :
             /\ w[18 * (i - 1) + 1].tag = "cd.signature"
             /\ Le32Val(w[18 * (i - 1) + 1].val) = SIG_CENTRAL_DIR
             /\ w[18 * (i - 1) + 17].tag = "cd.local_header_offset"
             /\ Le32Val(w[18 * (i - 1) + 17].val) = entries.data[i].offset
             /\ w[18 * i].tag = "cd.name"
             /\ w[18 * i].val = entries.data[i].name
        /\ w[18 * n + 1].tag = "eocd.signature"
        /\ fails = 0 => n = n_add_ok

C1_Witness ==
  /\ last.op = "zip_end" /\ last.ok /\ fails = 0
  /\ zip_get_num_entries = 2
  /\ entries.data[1].offset # entries.data[2].offset
  /\ entries.data[1].name # entries.data[2].name

(***************************************************************************)
(* C2: after every call that returned true, bytes_written is the sum of    *)
(* the lengths of all buffers the sink has accepted.                       *)
(***************************************************************************)
C2_BytesWrittenIsSinkTotal == last.ok => bytes_written = SumLen(out)

(***************************************************************************)
(* C3: a call made in the wrong state (zip_entry_add or zip_end with an    *)
(* entry open, zip_entry_update with none) returns false, calls neither    *)
(* the sink nor the adapter and leaves the encoder as it found it; an      *)
(* entry is only ever added while none is open.                            *)
(***************************************************************************)
SequencingError ==
  \/ last.op \in {"zip_entry_add", "zip_end"} /\ last.pre.entry_opened
  \/ last.op = "zip_entry_update" /\ ~last.pre.entry_opened

C3_SequencingErrors ==
  /\ SequencingError => (~last.ok /\ NoCalls /\ Untouched)
  /\ zip_get_num_entries > PreLen => ~last.pre.entry_opened

C3_Witness ==
  /\ last.op = "zip_entry_add" /\ last.pre.entry_opened
  /\ CUR_ENTRY.size > 0

(***************************************************************************)
(* C4: when the sink rejects one of the twelve calls of the local file     *)
(* header, zip_entry_add returns false and leaves the encoder as it found  *)
(* it: no entry open, no entry added, bytes_written as before.             *)
(***************************************************************************)
C4_RejectedHeader ==
  (last.op = "zip_entry_add" /\ Rejected) =>
    /\ ~last.ok
    /\ Untouched
    /\ ~entry_opened
    /\ zip_get_num_entries = PreLen
    /\ bytes_written = last.pre.bytes_written

C4_Witness ==
  /\ last.op = "zip_entry_add" /\ Rejected
  /\ last.calls = 12
  /\ zip_get_num_entries = 1

(***************************************************************************)
(* C5: zip_entry_end with no entry open returns true, calls neither the    *)
(* sink nor the adapter and leaves the encoder as it found it.             *)
(***************************************************************************)
C5_CloseWhenIdle ==
  (last.op = "zip_entry_end" /\ ~last.pre.entry_opened) =>
    (last.ok /\ NoCalls /\ Untouched)

C5_Witness ==
  /\ last.op = "zip_entry_end" /\ ~last.pre.entry_opened
  /\ zip_get_num_entries = 1
  /\ Len(Positions("dd.uncompressed_size")) = 1

(***************************************************************************)
(* C6: zip_entry_update with no data on an open entry returns true, calls  *)
(* neither the sink nor the adapter and leaves the encoder (the entry's    *)
(* crc and sizes, bytes_written, the adapter) as it found it.              *)
(***************************************************************************)
C6_EmptyUpdate ==
  (last.op = "zip_entry_update" /\ last.pre.entry_opened /\ last.arg = 0) =>
    (last.ok /\ NoCalls /\ Untouched)

C6_Witness ==
  /\ last.op = "zip_entry_update" /\ last.pre.entry_opened /\ last.arg = 0
  /\ CUR_ENTRY.size > 0

(***************************************************************************)
(* C7: a zip_entry_update with data that returns true adds the length of   *)
(* the data to the current entry's size and the number of bytes drained    *)
(* to the sink during the call to its size_compressed and to               *)
(* bytes_written; the entries before it are as they were.                  *)
(***************************************************************************)
C7_UpdateCounts ==
  (last.op = "zip_entry_update" /\ last.ok /\ last.arg > 0) =>
    LET n == zip_get_num_entries
        p == last.pre.entries.data
    IN  /\ n = PreLen
        /\ CUR_ENTRY.size = p[n].size + last.arg
        /\ CUR_ENTRY.size_compressed = p[n].size_compressed + SumLen(Wrote)
        /\ bytes_written = last.pre.bytes_written + SumLen(Wrote)
        /\ \A i \in 1..(n - 1) : entries.data[i] = p[i]

C7_Witness ==
  /\ last.op = "zip_entry_update" /\ last.ok /\ last.arg > 0
  /\ Len(Wrote) = 2 /\ SumLen(Wrote) = ZIP_INTERNAL_BUFFER_SIZE
  /\ zip_get_num_entries = 2

(***************************************************************************)
(* C8: a zip_entry_end that returns false leaves the entry open, and a     *)
(* zip_entry_end on an open entry always runs the flush.                   *)
(***************************************************************************)
C8_FailedCloseStaysOpen ==
  /\ (last.op = "zip_entry_end" /\ ~last.ok) =>
       (entry_opened /\ last.pre.entry_opened)
  /\ (last.op = "zip_entry_end" /\ last.pre.entry_opened) => last.adapter >= 1

C8_Witness ==
  /\ last.op = "zip_entry_end" /\ ~last.ok
  /\ Rejected
  /\ Len(Wrote) >= 2
  /\ Wrote[Len(Wrote)].tag = "dd.crc"

(***************************************************************************)
(* C9: a call changes the crc, size or size_compressed of an entry only if *)
(* that entry is the last one and an entry was open when the call was      *)
(* made; and in the central directory a successful zip_end writes, the     *)
(* crc and sizes of the i-th entry are the bytes of the i-th data          *)
(* descriptor written whole.                                               *)
(***************************************************************************)
Counters(e) == << e.crc, e.size_compressed, e.size >>

C9_CountersFrozen ==
  /\ \A i \in 1..PreLen :
       Counters(entries.data[i]) # Counters(last.pre.entries.data[i])
         => (i = PreLen /\ last.pre.entry_opened)
  /\ (last.op = "zip_end" /\ last.ok) =>
       LET dd == Positions("dd.uncompressed_size")
           w == Wrote
       IN  /\ Len(dd) = zip_get_num_entries
           /\ \A i \in 1..Len(dd) :
                /\ w[18 * (i - 1) + 8].val = out[dd[i] - 2].val
                /\ w[18 * (i - 1) + 9].val = out[dd[i] - 1].val
                /\ w[18 * (i - 1) + 10].val = out[dd[i]].val
                /\ w[18 * (i - 1) + 8].tag = "cd.crc"
                /\ out[dd[i] - 2].tag = "dd.crc"

C9_Witness ==
  /\ last.op = "zip_end" /\ last.ok
  /\ zip_get_num_entries = 2
  /\ Counters(entries.data[1]) # Counters(entries.data[2])
  /\ entries.data[1].size > 0
  /\ entries.data[1].size_compressed > ZIP_INTERNAL_BUFFER_SIZE

(***************************************************************************)
(* C10: the offset of an entry is the value bytes_written had when the     *)
(* zip_entry_add that added it was called, it never changes, and the      *)
(* first entry has offset 0.                                               *)
(***************************************************************************)
C10_OffsetIsBytesWritten ==
  /\ zip_get_num_entries > PreLen =>
       /\ last.op = "zip_entry_add"
       /\ zip_get_num_entries = PreLen + 1
       /\ CUR_ENTRY.offset = last.pre.bytes_written
  /\ \A i \in 1..PreLen :
       entries.data[i].offset = last.pre.entries.data[i].offset
  /\ zip_get_num_entries >= 1 => entries.data[1].offset = 0

C10_Witness ==
  /\ last.op = "zip_entry_add" /\ last.ok
  /\ zip_get_num_entries = 2
  /\ CUR_ENTRY.offset = last.pre.bytes_written
  /\ CUR_ENTRY.offset > ZIP_INTERNAL_BUFFER_SIZE
(***************************************************************************)
(* C11: a zip_end that returns true ends by writing the end of central     *)
(* directory record: 22 bytes, signature 0x06054b50, disk 0, start disk 0, *)
(* both entry counts equal to zip_get_num_entries, the size of the central *)
(* directory just written (46 bytes and the name, per entry), the offset   *)
(* equal to bytes_written as zip_end found it, comment length 0.           *)
(***************************************************************************)
RECURSIVE CdSize(_)
CdSize(es) == IF es = <<>> THEN 0 ELSE 46 + Len(Head(es).name) + CdSize(Tail(es))

EocdTags ==
  << "eocd.signature", "eocd.disk_num", "eocd.start_disk_num",
     "eocd.num_entries_in_disk", "eocd.num_entries", "eocd.central_dir_size",
     "eocd.offset", "eocd.comment_length" >>

\* the last eight buffers of the last call
Tail8 == SubSeq(Wrote, Len(Wrote) - 7, Len(Wrote))

C11_EndRecord ==
  (last.op = "zip_end" /\ last.ok) =>
    /\ Len(Wrote) = 18 * zip_get_num_entries + 8
    /\ [i \in 1..8 |-> Tail8[i].tag] = EocdTags
    /\ SumLen(Tail8) = 22
    /\ Le32Val(Tail8[1].val) = SIG_EOCD
    /\ Le16Val(Tail8[2].val) = 0
    /\ Le16Val(Tail8[3].val) = 0
    /\ Le16Val(Tail8[4].val) = zip_get_num_entries
    /\ Le16Val(Tail8[5].val) = zip_get_num_entries
    /\ Le32Val(Tail8[6].val) = CdSize(entries.data)
    /\ Le32Val(Tail8[6].val) = SumLen(SubSeq(Wrote, 1, Len(Wrote) - 8))
    /\ Le32Val(Tail8[7].val) = last.pre.bytes_written
    /\ Le32Val(Tail8[7].val) = central_dir_offset
    /\ Le16Val(Tail8[8].val) = 0

\* zip_end returned true with two entries behind it, one of them named
\* with 127 bytes
C11_Witness ==
  /\ last.op = "zip_end" /\ last.ok
  /\ zip_get_num_entries = 2
  /\ Le16Val(Tail8[5].val) = 2
  /\ last.pre.bytes_written > 0
  /\ Le32Val(Tail8[6].val) = 46 + 127 + 46 + 1

(***************************************************************************)
(* C12: while the sink accepts every buffer, the sink's record is ordered: *)
(* for each entry in the order it was opened its local header, its chunks, *)
(* its data descriptor, nothing of another entry in between; then the      *)
(* central directory file headers in the order of the entries; then the    *)
(* end of central directory record, the last bytes written.                *)
(***************************************************************************)
LfhTags ==
  << "lfh.signature", "lfh.extract_version", "lfh.flags", "lfh.method",
     "lfh.modif_time", "lfh.modif_date", "lfh.crc", "lfh.compressed_size",
     "lfh.uncompressed_size", "lfh.fname_length", "lfh.extra_field_length",
     "lfh.name" >>

DdTags ==
  << "dd.signature", "dd.crc", "dd.compressed_size", "dd.uncompressed_size" >>

CdTags ==
  << "cd.signature", "cd.made_by", "cd.extract_version", "cd.flags",
     "cd.method", "cd.modif_time", "cd.modif_date", "cd.crc",
     "cd.compressed_size", "cd.uncompressed_size", "cd.fname_length",
     "cd.extra_field_length", "cd.comment_length", "cd.disk_num",
     "cd.internal_attributes", "cd.external_attributes",
     "cd.local_header_offset", "cd.name" >>

\* the buffers of out from position i on carry the tags, in order
TagsAt(i, tags) ==
  /\ i + Len(tags) - 1 <= Len(out)
  /\ \A k \in 1..Len(tags) : out[i + k - 1].tag = tags[k]

\* from position i to the end, out is the central directory of the first n
\* entries and the end of central directory record
TrailerAt(i, n) ==
  /\ n = zip_get_num_entries
  /\ i + 18 * n + 8 - 1 = Len(out)
  /\ \A e \in 1..n : /\ TagsAt(i + 18 * (e - 1), CdTags)
                     /\ out[i + 18 * e - 1].val = entries.data[e].name
  /\ TagsAt(i + 18 * n, EocdTags)

\* from position i on, after e entries of which the last is open or not,
\* out goes on with the rest of the entries and then the trailer, or stops
\* short of it
RECURSIVE OrderedFrom(_, _, _)
OrderedFrom(i, e, open) ==
  IF i > Len(out) THEN TRUE
  ELSE IF out[i].tag = "lfh.signature" THEN
    /\ ~open
    /\ e < zip_get_num_entries
    /\ TagsAt(i, LfhTags)
    /\ out[i + 11].val = entries.data[e + 1].name
    /\ OrderedFrom(i + 12, e + 1, TRUE)
  ELSE IF out[i].tag = "deflate" THEN
    open /\ OrderedFrom(i + 1, e, TRUE)
  ELSE IF out[i].tag = "dd.signature" THEN
    open /\ TagsAt(i, DdTags) /\ OrderedFrom(i + 4, e, FALSE)
  ELSE IF out[i].tag \in {"cd.signature", "eocd.signature"} THEN
    ~open /\ TrailerAt(i, e)
  ELSE FALSE

\* C12 as it is worded: the order holds in every run the sink never stops
C12_StreamOrder == rejects = 0 => OrderedFrom(1, 0, FALSE)

\* zip_end has not returned true, or did once and was the last call
OneEnd == NumEnds = 0 \/ (NumEnds = 1 /\ last.op = "zip_end" /\ last.ok)

\* C12, amended: the order holds in every run in which the sink accepts
\* every buffer and nothing is called after a zip_end that returned true
C12_StreamOrderOneEnd == (rejects = 0 /\ OneEnd) => OrderedFrom(1, 0, FALSE)

\* two entries, each with chunks and a descriptor, then the central
\* directory and the end record, with nothing rejected
C12_Witness ==
  /\ rejects = 0
  /\ last.op = "zip_end" /\ last.ok
  /\ zip_get_num_entries = 2
  /\ Len(Positions("deflate")) >= 3
  /\ Len(Positions("dd.signature")) = 2
  /\ Len(Positions("cd.signature")) = 2
  /\ out[Len(out)].tag = "eocd.comment_length"

(***************************************************************************)
(* C13: a name longer than ZIP_ENTRY_MAX_NAME_LEN is no cause of failure   *)
(* and is stored as its first 127 bytes; a shorter name is stored whole.   *)
(* The entry, the length and the name of its local file header and the     *)
(* length and the name of its central directory file header all carry the  *)
(* same prefix.                                                            *)
(***************************************************************************)
StoredName(filename) ==
  SubSeq(filename, 1,
         IF Len(filename) < ZIP_ENTRY_MAX_NAME_LEN THEN Len(filename)
         ELSE ZIP_ENTRY_MAX_NAME_LEN)

\* the central directory file headers the last call wrote whole
CdWhole == Len(Wrote) \div 18

C13_NameTruncated ==
  /\ Len(given) = zip_get_num_entries
  /\ Len(Positions("lfh.name")) = zip_get_num_entries
  /\ \A i \in 1..zip_get_num_entries :
       LET stored == StoredName(given[i].filename)
           p == Positions("lfh.name")[i]
       IN  /\ Len(stored) <= ZIP_ENTRY_MAX_NAME_LEN
           /\ Len(given[i].filename) <= ZIP_ENTRY_MAX_NAME_LEN
                => stored = given[i].filename
           /\ entries.data[i].name = stored
           /\ out[p - 2].tag = "lfh.fname_length"
           /\ Le16Val(out[p - 2].val) = Len(stored)
           /\ out[p].val = stored
  /\ last.op = "zip_end" =>
       \A i \in 1..CdWhole :
         LET stored == StoredName(given[i].filename)
         IN  /\ Wrote[18 * (i - 1) + 11].tag = "cd.fname_length"
             /\ Le16Val(Wrote[18 * (i - 1) + 11].val) = Len(stored)
             /\ Wrote[18 * i].tag = "cd.name"
             /\ Wrote[18 * i].val = stored
  /\ (last.op = "zip_entry_add" /\ ~last.ok) =>
       \/ last.pre.entry_opened         \* sequencing error
       \/ Rejected                      \* the sink
       \/ last.adapter = 1              \* deflateReset

\* zip_end has written the central directory of an entry added with a name
\* of 130 bytes, which zip_entry_add accepted
C13_Witness ==
  /\ last.op = "zip_end" /\ last.ok
  /\ \E i \in 1..zip_get_num_entries :
       /\ Len(given[i].filename) = 130
       /\ Len(entries.data[i].name) = 127
       /\ Le16Val(Wrote[18 * (i - 1) + 11].val) = 127
       /\ Len(Wrote[18 * i].val) = 127
  /\ n_add_ok = zip_get_num_entries

(***************************************************************************)
(* C14: zip_get_num_entries is the number of zip_entry_add calls that      *)
(* returned true; zip_entry_update, zip_entry_end, zip_end and every       *)
(* zip_entry_add that returned false leave it as it was.                   *)
(***************************************************************************)
C14_EntryCount ==
  /\ zip_get_num_entries = n_add_ok
  /\ (last.op \in {"zip_entry_update", "zip_entry_end", "zip_end"}
        \/ (last.op = "zip_entry_add" /\ ~last.ok))
       => zip_get_num_entries = PreLen

(***************************************************************************)
(* C15: z->entries is append-only.  No call removes or reorders an entry,  *)
(* zip_get_num_entries never decreases, and the name, offset, date and     *)
(* time of an entry stay as zip_entry_add set them, also when varray_push  *)
(* grows the array.                                                        *)
(***************************************************************************)
Identity(e) == << e.name, e.offset, e.date, e.time >>

C15_AppendOnly ==
  /\ PreLen <= zip_get_num_entries
  /\ zip_get_num_entries <= PreLen + 1
  /\ zip_get_num_entries > PreLen => last.op = "zip_entry_add"
  /\ \A i \in 1..PreLen :
       Identity(entries.data[i]) = Identity(last.pre.entries.data[i])
  /\ \A i \in 1..zip_get_num_entries :
       /\ entries.data[i].name = StoredName(given[i].filename)
       /\ entries.data[i].date = _get_dos_date(given[i].datetime)
       /\ entries.data[i].time = _get_dos_time(given[i].datetime)
  /\ \A i, j \in 1..zip_get_num_entries :
       i < j => entries.data[i].offset < entries.data[j].offset
  /\ zip_get_num_entries <= entries.capacity

\* the array has grown under the second entry, and later calls have fed
\* and closed that entry
C15_Witness ==
  /\ zip_get_num_entries = 2
  /\ entries.capacity = 2
  /\ entries.data[1].name # entries.data[2].name
  /\ entries.data[2].size > 0
  /\ last.op = "zip_entry_end" /\ last.ok

(***************************************************************************)
(* C16: a zip_init that returns false leaves no block of its own live:     *)
(* without a sink it allocates nothing; when deflateInit2 fails it frees   *)
(* the output buffer and the block of the entries, each once and by the    *)
(* address malloc returned.                                                *)
(***************************************************************************)
C16_InitFailureReleases ==
  (last.op = "zip_init" /\ ~last.ok) =>
    /\ heap.live = {}
    /\ heap.status = "ok"
    /\ \A k \in 1..Len(heap.freed) : heap.freed[k].at = "base"
    /\ \A j, k \in 1..Len(heap.freed) :
         j # k => heap.freed[j] # heap.freed[k]
    /\ last.adapter = 0 => heap.freed = <<>>

(***************************************************************************)
(* C17: the sink is called once per record (local file header, data        *)
(* descriptor, central directory file header, end of central directory     *)
(* record) or once per drained chunk.                                      *)
(***************************************************************************)
\* the chunks among the buffers of the last call
ChunksWritten == Len(SelectSeq(Wrote, LAMBDA b : b.tag = "deflate"))

\* the records a call that wrote everything has written
RecordsWritten ==
  IF last.op = "zip_entry_add" THEN zip_get_num_entries - PreLen
  ELSE IF last.op = "zip_entry_end" THEN (IF last.pre.entry_opened THEN 1 ELSE 0)
  ELSE IF last.op = "zip_end" THEN zip_get_num_entries + 1
  ELSE 0

\* the fields of those records, a name counted as one
FieldsWritten ==
  IF last.op = "zip_entry_add" THEN 12 * (zip_get_num_entries - PreLen)
  ELSE IF last.op = "zip_entry_end" THEN (IF last.pre.entry_opened THEN 4 ELSE 0)
  ELSE IF last.op = "zip_end" THEN 18 * zip_get_num_entries + 8
  ELSE 0

\* the last call was not refused and the sink accepted all it was passed
WroteAll ==
  /\ last.op \in {"zip_entry_add", "zip_entry_update", "zip_entry_end", "zip_end"}
  /\ ~Rejected
  /\ last.ok \/ (last.op = "zip_entry_add" /\ zip_get_num_entries > PreLen)

\* C17 as it is worded: one sink call per record and one per chunk
C17_OncePerRecord == WroteAll => last.calls = ChunksWritten + RecordsWritten

IsName(b) == b.tag \in {"lfh.name", "cd.name"}

\* C17, amended: the sink is called once per field of a record, the name
\* being a field: 12 calls for a local file header, 4 for a data
\* descriptor, 18 for a central directory file header, 8 for the end of
\* central directory record; and once per drained chunk
C17_OncePerField ==
  /\ WroteAll => last.calls = ChunksWritten + FieldsWritten
  /\ \A i \in 1..Len(out) :
       \/ out[i].tag = "deflate" /\ out[i].len <= ZIP_INTERNAL_BUFFER_SIZE
       \/ IsName(out[i]) /\ out[i].len <= ZIP_ENTRY_MAX_NAME_LEN
       \/ out[i].tag # "deflate" /\ ~IsName(out[i]) /\ out[i].len \in {2, 4}

\* every kind of record has been written: a header in 12 calls, a
\* descriptor after a chunk in 5, a central directory and the end record
\* in 26
C17_Witness ==
  /\ last.op = "zip_end" /\ last.ok /\ last.calls = 26
  /\ rejects = 0
  /\ Len(Positions("lfh.name")) = 1
  /\ Len(Positions("dd.signature")) = 1
  /\ Len(Positions("deflate")) >= 2

(***************************************************************************)
(* C19: the crc of an entry is the CRC-32, from the seed zip_entry_add     *)
(* set, of all the data passed to zip_entry_update for it, in order, and   *)
(* its size is the length of that data; so both are the same however the   *)
(* data was split over the calls, calls with no data included.             *)
(***************************************************************************)
C19_CrcOfConcatenation ==
  /\ Len(given) = zip_get_num_entries
  /\ \A i \in 1..zip_get_num_entries :
       /\ entries.data[i].crc = crc32(crc32_init, given[i].data)
       /\ entries.data[i].size = Len(given[i].data)
  /\ (last.op = "zip_entry_update" /\ last.ok /\ last.arg = 0) =>
       entries = last.pre.entries

\* an entry that was fed three bytes in two calls and then a call with no
\* data, and an entry before it that was fed nothing
C19_Witness ==
  /\ zip_get_num_entries = 2
  /\ given[1].data = <<>>
  /\ entries.data[1].crc = crc32_init
  /\ given[2].data = <<97, 98, 97>>
  /\ Len(Positions("deflate")) = 3
  /\ last.op = "zip_entry_update" /\ last.ok /\ last.arg = 0
  /\ entries.data[2].crc # crc32(crc32_init, <<97>>)

(***************************************************************************)
(* C20: for a datetime within 1980..2107, 1..12, 1..31, 0..23, 0..59 and   *)
(* 0..59 the date of the entry is (year - 1980) * 512 + month * 32 + day   *)
(* and its time is hours * 2048 + minutes * 32 + seconds div 2; both fit   *)
(* 16 bits, and the time is that of the even second and of the odd second  *)
(* of the same two-second unit.                                            *)
(***************************************************************************)
InRange(dt) ==
  /\ dt.year \in 1980..2107
  /\ dt.month \in 1..12
  /\ dt.day \in 1..31
  /\ dt.hours \in 0..23
  /\ dt.minutes \in 0..59
  /\ dt.seconds \in 0..59

C20_DosDateTime ==
  \A i \in 1..zip_get_num_entries :
    LET dt == given[i].datetime
        even == [dt EXCEPT !.seconds = 2 * (dt.seconds \div 2)]
        odd == [dt EXCEPT !.seconds = 2 * (dt.seconds \div 2) + 1]
        e == entries.data[i]
        p == Positions("lfh.name")[i]
    IN  InRange(dt) =>
          /\ e.date = (dt.year - 1980) * 512 + dt.month * 32 + dt.day
          /\ e.time = dt.hours * 2048 + dt.minutes * 32 + (dt.seconds \div 2)
          /\ e.date \in 0..65535
          /\ e.time \in 0..65535
          /\ _get_dos_time(even) = e.time
          /\ _get_dos_time(odd) = e.time
          /\ Le16Val(out[p - 7].val) = e.time
          /\ Le16Val(out[p - 6].val) = e.date

\* the entry of 2107-12-31 23:59:59, the largest date and time in range
C20_Witness ==
  /\ zip_get_num_entries = 1
  /\ given[1].datetime =
       [year |-> 2107, month |-> 12, day |-> 31, hours |-> 23,
        minutes |-> 59, seconds |-> 59]
  /\ entries.data[1].date = 65439
  /\ entries.data[1].time = 49021
  /\ out[5].tag = "lfh.modif_time" /\ out[6].tag = "lfh.modif_date"

(***************************************************************************)
(* C21: a zip_entry_add that returns true passes the sink 30 + L bytes, L  *)
(* the length of the stored name, and adds 30 + L to bytes_written.  The   *)
(* bytes are the local file header, least significant byte first:          *)
(* 0x04034b50, 20, 0x0008, 8, time, date, 0, 0, 0, L, 0, then the name.    *)
(***************************************************************************)
RECURSIVE Bytes(_)
Bytes(bufs) == IF bufs = <<>> THEN <<>> ELSE Head(bufs).val \o Bytes(Tail(bufs))

Lo(n) == n % 256

Hi(n) == n \div 256

C21_LocalHeader ==
  (last.op = "zip_entry_add" /\ last.ok) =>
    LET e == CUR_ENTRY
        L == Len(e.name)
    IN  /\ [i \in 1..Len(Wrote) |-> Wrote[i].len]
             = << 4, 2, 2, 2, 2, 2, 4, 4, 4, 2, 2, L >>
        /\ SumLen(Wrote) = 30 + L
        /\ bytes_written = last.pre.bytes_written + 30 + L
        /\ Bytes(Wrote) =
             << 80, 75, 3, 4,   20, 0,   8, 0,   8, 0,
                Lo(e.time), Hi(e.time),   Lo(e.date), Hi(e.date),
                0, 0, 0, 0,   0, 0, 0, 0,   0, 0, 0, 0,
                Lo(L), Hi(L),   0, 0 >> \o e.name
        /\ Hi(e.time) < 256 /\ Hi(e.date) < 256 /\ Hi(L) < 256

\* the header of a second entry, with a name of 127 bytes, after a first
\* entry that was closed
C21_Witness ==
  /\ last.op = "zip_entry_add" /\ last.ok
  /\ zip_get_num_entries = 2
  /\ Len(CUR_ENTRY.name) = 127
  /\ SumLen(Wrote) = 157
  /\ last.pre.bytes_written > 47
  /\ Hi(CUR_ENTRY.time) > 0 /\ Lo(CUR_ENTRY.time) > 0

(***************************************************************************)
(* C22: every central directory file header zip_end writes is 46 + L       *)
(* bytes, L the length of the entry's name, and adds 46 + L to             *)
(* bytes_written.  It carries 0x02014b50, made by 0, version 20, flags     *)
(* 0x0008, method 8, the time and the date of the entry as in its local    *)
(* file header, its crc, compressed and uncompressed size, L, five zero    *)
(* fields, the offset of its local file header, then the name.             *)
(***************************************************************************)
\* the four bytes of a 32 bit value, least significant first
B32(n) == << n % 256, (n \div 256) % 256, (n \div 65536) % 256, n \div 16777216 >>

\* the same of a value kept as <<high half, low half>>
B32H(c) == << Lo(c[2]), Hi(c[2]), Lo(c[1]), Hi(c[1]) >>

\* the i-th central directory file header of the last call
CdRecord(i) == SubSeq(Wrote, 18 * (i - 1) + 1, 18 * i)

C22_CentralHeader ==
  last.op = "zip_end" =>
    /\ \A i \in 1..CdWhole :
         LET e == entries.data[i]
             L == Len(e.name)
             rec == CdRecord(i)
             p == Positions("lfh.name")[i]
         IN  /\ [k \in 1..18 |-> rec[k].len]
                  = << 4, 2, 2, 2, 2, 2, 2, 4, 4, 4, 2, 2, 2, 2, 2, 4, 4, L >>
             /\ SumLen(rec) = 46 + L
             /\ Bytes(rec) =
                  << 80, 75, 1, 2,   0, 0,   20, 0,   8, 0,   8, 0,
                     Lo(e.time), Hi(e.time),   Lo(e.date), Hi(e.date) >>
                    \o B32H(e.crc) \o B32(e.size_compressed) \o B32(e.size)
                    \o << Lo(L), Hi(L),   0, 0,   0, 0,   0, 0,   0, 0,
                          0, 0, 0, 0 >>
                    \o B32(e.offset) \o e.name
             /\ rec[6].val = out[p - 7].val      \* lfh.modif_time
             /\ rec[7].val = out[p - 6].val      \* lfh.modif_date
    /\ bytes_written
         = last.pre.bytes_written + SumLen(SubSeq(Wrote, 1, 18 * CdWhole))
    /\ last.ok => CdWhole = zip_get_num_entries

\* zip_end has written the headers of two entries, the first with data
\* behind it and the second at an offset that takes two bytes
C22_Witness ==
  /\ last.op = "zip_end" /\ last.ok
  /\ zip_get_num_entries = 2
  /\ entries.data[1].crc # crc32_init
  /\ entries.data[1].size > 0
  /\ entries.data[2].offset > 255
  /\ bytes_written = last.pre.bytes_written + 92
                       + Len(entries.data[1].name) + Len(entries.data[2].name)

(***************************************************************************)
(* C23: a zip_entry_end that returns true on an open entry first drains    *)
(* the adapter, counting the chunks in size_compressed and bytes_written,  *)
(* then writes the 16 bytes of the data descriptor: 0x08074b50, the crc,   *)
(* the compressed size with the drained chunks in it, the uncompressed     *)
(* size; it adds 16 to bytes_written and clears entry_opened, after which  *)
(* zip_entry_add and zip_end are not refused.                              *)
(***************************************************************************)
ClosedNow == last.op = "zip_entry_end" /\ last.ok /\ last.pre.entry_opened

C23_CloseEntry ==
  /\ ClosedNow =>
       LET n == Len(Wrote)
           chunks == SubSeq(Wrote, 1, n - 4)
           dd == SubSeq(Wrote, n - 3, n)
           e == CUR_ENTRY
           was == varray_last(last.pre.entries)
       IN  /\ n >= 5
           /\ \A k \in 1..(n - 4) : chunks[k].tag = "deflate"
           /\ [k \in 1..4 |-> dd[k].tag] = DdTags
           /\ [k \in 1..4 |-> dd[k].len] = << 4, 4, 4, 4 >>
           /\ Bytes(dd) = << 80, 75, 7, 8 >> \o B32H(e.crc)
                            \o B32(e.size_compressed) \o B32(e.size)
           /\ e.size_compressed = was.size_compressed + SumLen(chunks)
           /\ e.crc = was.crc
           /\ e.size = was.size
           /\ bytes_written = last.pre.bytes_written + SumLen(chunks) + 16
           /\ ~entry_opened
           /\ zip_get_num_entries = PreLen
  /\ (last.op \in {"zip_entry_add", "zip_end"} /\ ~last.pre.entry_opened
        /\ ~last.ok) => (Rejected \/ last.adapter = 1)

\* an entry with data was closed: a full buffer and the rest of the
\* stream were drained, then the descriptor was written
C23_Witness ==
  /\ ClosedNow
  /\ Len(Wrote) = 6
  /\ SumLen(Wrote) = ZIP_INTERNAL_BUFFER_SIZE + 3 + 16
  /\ CUR_ENTRY.size > 0
  /\ CUR_ENTRY.size_compressed > ZIP_INTERNAL_BUFFER_SIZE

(***************************************************************************)
(* C24: varray_push on a full array (len = capacity) doubles the capacity, *)
(* once; on an array that is not full it leaves the capacity alone; the    *)
(* elements already stored keep their values and their order.  So 2^k + 1  *)
(* pushes into an array of capacity 1 end with the capacity 2^(k+1).       *)
(***************************************************************************)
PreArray == last.pre.entries

RECURSIVE Pow2(_)
Pow2(k) == IF k = 0 THEN 1 ELSE 2 * Pow2(k - 1)

\* the calls so far are a varray_init that gave the capacity 1 and then
\* pushes, n of them
Pushes(n) ==
  /\ _varray_init(given[1].arg).capacity = 1
  /\ Len(given) = n + 1
  /\ \A i \in 2..Len(given) : given[i].op = "varray_push"

C24_PushDoubles ==
  /\ last.op = "varray_push" =>
       /\ varray_len(PreArray) = PreArray.capacity
            => entries.capacity = 2 * PreArray.capacity
       /\ varray_len(PreArray) < PreArray.capacity
            => entries.capacity = PreArray.capacity
       /\ entries.data = Append(PreArray.data, last.arg)
  /\ \A k \in 0..2 :
       Pushes(Pow2(k) + 1) =>
         /\ varray_len(entries) = Pow2(k) + 1
         /\ entries.capacity = Pow2(k + 1)

\* the fifth push into an array of capacity 1: the array was full at 4 and
\* holds 8 now
C24_Witness ==
  /\ Pushes(5)
  /\ given[1].arg = 1
  /\ last.op = "varray_push"
  /\ PreArray.capacity = 4 /\ varray_len(PreArray) = 4
  /\ entries.capacity = 8
  /\ entries.data = << 1, 2, 2, 1, 2 >>

(***************************************************************************)
(* C25: after varray_init and any pushes, appends and pops of an array     *)
(* that is not empty, the capacity is never less than the length.          *)
(***************************************************************************)
C25_CapacityHoldsLen == varray_len(entries) <= entries.capacity

\* a push has filled an array that an append had grown and a pop had
\* shortened
C25_Witness ==
  /\ last.op = "varray_push"
  /\ varray_len(entries) = entries.capacity
  /\ \E i, j \in 2..Len(given) :
       i < j /\ given[i].op = "varray_append" /\ given[j].op = "varray_pop"

(***************************************************************************)
(* C26: varray_pop on an array of len L >= 1 returns the element stored    *)
(* last among those still in the array, leaves L - 1 elements as they      *)
(* were and the capacity as it was; varray_last returns the same element   *)
(* and changes nothing.                                                    *)
(***************************************************************************)
C26_PopAndLast ==
  /\ last.op = "varray_pop" =>
       LET L == varray_len(PreArray)
       IN  /\ L >= 1
           /\ last.arg = PreArray.data[L]
           /\ varray_len(entries) = L - 1
           /\ entries.data = SubSeq(PreArray.data, 1, L - 1)
           /\ entries.capacity = PreArray.capacity
  /\ last.op = "varray_last" =>
       /\ last.arg = PreArray.data[varray_len(PreArray)]
       /\ entries = PreArray
  /\ (last.op = "varray_pop" /\ given[Len(given) - 1].op = "varray_last") =>
       last.arg = given[Len(given) - 1].arg

\* varray_last and then varray_pop have returned the 4 of << 1, 3, 4 >>
C26_Witness ==
  /\ last.op = "varray_pop"
  /\ given[Len(given) - 1].op = "varray_last"
  /\ PreArray.data = << 1, 3, 4 >>
  /\ last.arg = 4
  /\ entries.data = << 1, 3 >>

(***************************************************************************)
(* C27: varray_append of n elements to an array of len elements and of     *)
(* capacity cap >= 1 stores them in their order after the others, and      *)
(* makes the capacity the smallest cap * 2^j that is at least len + n; if  *)
(* len + n <= cap the capacity stays.                                      *)
(***************************************************************************)
C27_Append ==
  last.op = "varray_append" =>
    LET len == varray_len(PreArray)
        cap == PreArray.capacity
        n == Len(last.arg)
    IN  /\ cap >= 1
        /\ entries.data = PreArray.data \o last.arg
        /\ varray_len(entries) = len + n
        /\ \E j \in 0..4 :
             /\ entries.capacity = cap * Pow2(j)
             /\ entries.capacity >= len + n
             /\ j > 0 => (cap * Pow2(j - 1)) < len + n
        /\ len + n <= cap => entries.capacity = cap

\* three elements appended to one element in an array of capacity 1: the
\* capacity is doubled twice
C27_Witness ==
  /\ last.op = "varray_append"
  /\ PreArray.capacity = 1 /\ varray_len(PreArray) = 1
  /\ Len(last.arg) = 3
  /\ entries.capacity = 4
  /\ entries.data = << 2, 5, 6, 7 >>

(***************************************************************************)
(* C28: varray_init( ptr, n ) gives an empty array of capacity n, or of    *)
(* capacity 1 when n is 0.                                                 *)
(***************************************************************************)
C28_Init ==
  last.op = "varray_init" =>
    /\ varray_len(entries) = 0
    /\ entries.capacity = (IF last.arg = 0 THEN 1 ELSE last.arg)
    /\ entries.capacity >= 1

\* varray_init( ptr, 0 )
C28_Witness ==
  /\ last.op = "varray_init"
  /\ last.arg = 0
  /\ entries.capacity = 1
  /\ entries.data = <<>>

(***************************************************************************)
(* C29: in zip_entry_update and zip_entry_end every chunk the adapter      *)
(* leaves in the output buffer is at most ZIP_INTERNAL_BUFFER_SIZE (4096)  *)
(* bytes long and is given to the sink in the turn of the loop that        *)
(* produced it, before deflate is called again: the bytes produced and not *)
(* yet offered to the sink never exceed one buffer.                        *)
(***************************************************************************)
\* the bytes produced and not offered to the sink after i calls of the loop
RECURSIVE Held(_)
Held(i) ==
  IF i = 0 THEN 0
  ELSE IF loop[i].call = "deflate"
         THEN Held(i - 1) + (IF loop[i].ok THEN loop[i].len ELSE 0)
  ELSE Held(i - 1) - loop[i].len

OfferedAndAccepted == SelectSeq(loop, LAMBDA e : e.call = "out_cb" /\ e.ok)

ChunksOfWrote == SelectSeq(Wrote, LAMBDA b : b.tag = "deflate")

C29_DrainedAtOnce ==
  /\ loop # <<>> => last.op \in {"zip_entry_update", "zip_entry_end"}
  /\ Len(SelectSeq(loop, LAMBDA e : e.call = "deflate")) =
       (IF last.op \in {"zip_entry_update", "zip_entry_end"}
          THEN last.adapter ELSE 0)
  /\ \A i \in 1..Len(loop) :
       /\ loop[i].len <= ZIP_INTERNAL_BUFFER_SIZE
       /\ Held(i) <= ZIP_INTERNAL_BUFFER_SIZE
       /\ loop[i].call = "deflate" => Held(i - 1) = 0
       /\ (loop[i].call = "deflate" /\ loop[i].ok) =>
            /\ i < Len(loop)
            /\ loop[i + 1].call = "out_cb"
            /\ loop[i + 1].len = loop[i].len
  /\ Len(OfferedAndAccepted) = Len(ChunksOfWrote)
  /\ \A i \in 1..Len(ChunksOfWrote) :
       OfferedAndAccepted[i].len = ChunksOfWrote[i].len

\* zip_entry_end has drained a full buffer and then the rest: two turns of
\* the loop, each chunk accepted before deflate ran again
C29_Witness ==
  /\ last.op = "zip_entry_end" /\ last.ok
  /\ Len(loop) = 4
  /\ loop[1] = [call |-> "deflate", len |-> ZIP_INTERNAL_BUFFER_SIZE, ok |-> TRUE]
  /\ loop[2] = [call |-> "out_cb", len |-> ZIP_INTERNAL_BUFFER_SIZE, ok |-> TRUE]
  /\ loop[3].call = "deflate" /\ loop[3].len = 3
  /\ loop[4].call = "out_cb" /\ loop[4].len = 3
  /\ Wrote[1].len = ZIP_INTERNAL_BUFFER_SIZE /\ Wrote[2].len = 3

(***************************************************************************)
(* C30: z->central_dir_offset is 0 after zip_init, is set to               *)
(* z->bytes_written when zip_end begins (after the check of entry_opened), *)
(* is not modified by zip_entry_add, zip_entry_update, zip_entry_end or    *)
(* zip_get_num_entries, and is never assigned a second time.               *)
(***************************************************************************)
\* the last call is a zip_end that passed the check of entry_opened
EndBegan == last.op = "zip_end" /\ ~last.pre.entry_opened

\* a buffer of a central directory file header or of the end record
IsEndOutput(b) ==
  \/ \E k \in 1..Len(CdTags) : b.tag = CdTags[k]
  \/ \E k \in 1..Len(EocdTags) : b.tag = EocdTags[k]

\* the sink accepted a buffer of a zip_end before the last call
EndOutputBefore == \E i \in 1..last.mark : IsEndOutput(out[i])

\* no zip_end has passed the check: it would have written a buffer or have
\* seen the sink reject one
NoEndYet == rejects = 0 /\ \A i \in 1..Len(out) : ~IsEndOutput(out[i])

OffsetFrame ==
  /\ NoEndYet => central_dir_offset = 0
  /\ EndBegan => central_dir_offset = last.pre.bytes_written
  /\ (last.op = "zip_end" /\ last.pre.entry_opened) =>
       central_dir_offset = last.pre.central_dir_offset
  /\ last.op \in {"zip_entry_add", "zip_entry_update", "zip_entry_end"} =>
       central_dir_offset = last.pre.central_dir_offset

\* C30 as it is worded: a zip_end that records the offset is the first to
\* do so
C30_CapturedOnce ==
  /\ OffsetFrame
  /\ EndBegan => ~EndOutputBefore

\* the offset is recorded at each zip_end that passes the check, and by
\* nothing else; it is recorded once when one zip_end passes the check
C30_CapturedAtEachEnd ==
  /\ OffsetFrame
  /\ (EndBegan /\ EndOutputBefore) =>
       central_dir_offset = last.pre.bytes_written

\* a zip_end after a zip_end that wrote the central directory: the offset
\* is recorded again, and is another
C30_Witness ==
  /\ EndBegan
  /\ EndOutputBefore
  /\ last.pre.central_dir_offset > 0
  /\ central_dir_offset = last.pre.bytes_written
  /\ central_dir_offset > last.pre.central_dir_offset

(***************************************************************************)
(* C31: the end of central directory record is not counted in              *)
(* z->bytes_written.  After a zip_end that returned true, bytes_written is *)
(* central_dir_offset plus the size of the central directory file headers  *)
(* written, the size the end record reports, and is 22 less than the       *)
(* number of bytes the sink accepted when no call has failed.              *)
(***************************************************************************)
EndSucceeded == last.op = "zip_end" /\ last.ok

EndCountsHeaders ==
  EndSucceeded =>
    /\ bytes_written = central_dir_offset + CdSize(entries.data)
    /\ Le32Val(Tail8[6].val) = bytes_written - central_dir_offset
    /\ bytes_written = last.pre.bytes_written + SumLen(Wrote) - 22

ResetFailed ==
  /\ last.op = "zip_entry_add" /\ ~last.ok
  /\ ~last.pre.entry_opened
  /\ ~Rejected

\* the call found open the one entry of the list, pushed by a
\* zip_entry_add that returned false
AfterResetFailed ==
  /\ last.pre.entry_opened
  /\ varray_len(last.pre.entries) = 1
  /\ n_add_ok = 0

C32_ResetFailure ==
  /\ ResetFailed =>
       /\ zip_get_num_entries = PreLen + 1
       /\ Len(Wrote) = 12 /\ last.calls = 12
       /\ SumLen(Wrote) = 30 + Len(CUR_ENTRY.name)
       /\ bytes_written = last.pre.bytes_written + 30 + Len(CUR_ENTRY.name)
       /\ CUR_ENTRY.offset = last.pre.bytes_written
       /\ entry_opened
  /\ (AfterResetFailed /\ last.op = "zip_entry_add") =>
       (~last.ok /\ NoCalls /\ Untouched)
  /\ (AfterResetFailed /\ last.op = "zip_entry_end") =>
       /\ last.adapter >= 1
       /\ loop # <<>>
       /\ last.ok => (~entry_opened /\ Len(Wrote) >= 5
                        /\ bytes_written > last.pre.bytes_written)

\* deflateReset failed in the first zip_entry_add and the next one has been
\* refused
C32_Witness ==
  /\ AfterResetFailed
  /\ last.op = "zip_entry_add" /\ ~last.ok
  /\ fails = 2
  /\ entry_opened
  /\ zip_get_num_entries = 1
  /\ bytes_written = 30 + Len(CUR_ENTRY.name)

(***************************************************************************)
(* C33: when zip_entry_update with data_len > 0 fails, because deflate     *)
(* reports an error or the sink rejects a chunk, the CRC of the current    *)
(* entry covers all of data and its size has grown by data_len, while      *)
(* size_compressed and bytes_written count only the chunks the sink        *)
(* accepted before the failure; the entry stays open.                      *)
(***************************************************************************)
\* the last call is a zip_entry_update that reached _deflate and failed
UpdateFailed ==
  /\ last.op = "zip_entry_update" /\ ~last.ok
  /\ last.pre.entry_opened

\* the data of the last zip_entry_update: the end of what the entry was given
LastData ==
  LET d == given[Len(given)].data
  IN  SubSeq(d, Len(d) - last.arg + 1, Len(d))

C33_FailedUpdate ==
  UpdateFailed =>
    LET n == zip_get_num_entries
        p == last.pre.entries.data
        e == loop[Len(loop)]
    IN  /\ last.arg > 0
        /\ n = PreLen /\ Len(given) = n
        /\ \/ e.call = "deflate" /\ ~e.ok
           \/ e.call = "out_cb" /\ ~e.ok
        /\ CUR_ENTRY.crc = crc32(p[n].crc, LastData)
        /\ CUR_ENTRY.size = p[n].size + last.arg
        /\ \A i \in 1..Len(Wrote) : Wrote[i].tag = "deflate"
        /\ Len(Wrote) = Len(OfferedAndAccepted)
        /\ CUR_ENTRY.size_compressed = p[n].size_compressed + SumLen(Wrote)
        /\ bytes_written = last.pre.bytes_written + SumLen(Wrote)
        /\ entry_opened
        /\ \A i \in 1..(n - 1) : entries.data[i] = p[i]

\* the sink accepted a full buffer and rejected the next chunk: the byte
\* is in the CRC and in the size, the 4096 bytes in the two counters
C33_Witness ==
  /\ UpdateFailed
  /\ loop[Len(loop)].call = "out_cb"
  /\ Len(Wrote) = 1
  /\ LastData = << 97 >>
  /\ CUR_ENTRY.crc = crc32(crc32_init, << 97 >>)
  /\ CUR_ENTRY.size = 1
  /\ CUR_ENTRY.size_compressed = ZIP_INTERNAL_BUFFER_SIZE
  /\ bytes_written = last.pre.bytes_written + ZIP_INTERNAL_BUFFER_SIZE

(***************************************************************************)
(* C34: while bytes_written is below 2^32, the offsets of the entries      *)
(* increase strictly in insertion order, each at least 30 more than the    *)
(* one before; no call decreases bytes_written; and after a zip_end has    *)
(* begun the offset of every entry is less than central_dir_offset.        *)
(***************************************************************************)
OffsetsIncrease ==
  \A i \in 1..(zip_get_num_entries - 1) :
    /\ entries.data[i + 1].offset >= entries.data[i].offset + 30
    /\ entries.data[i + 1].offset >=
         entries.data[i].offset + 30 + Len(entries.data[i].name)

OffsetsBelowDirectory ==
  \A i \in 1..zip_get_num_entries :
    entries.data[i].offset < central_dir_offset

\* the sink has accepted a buffer of a zip_end: a zip_end has begun
EndHasBegun == \E i \in 1..Len(out) : IsEndOutput(out[i])

Monotone ==
  /\ bytes_written \div 65536 < 65536 => OffsetsIncrease    \* below 2^32
  /\ bytes_written >= last.pre.bytes_written

\* C34 as it is worded: below the directory ever after
C34_OffsetsOrdered ==
  /\ Monotone
  /\ EndHasBegun => OffsetsBelowDirectory

\* the place in out of the last buffer of a zip_end
LastEndOutput ==
  CHOOSE i \in 1..Len(out) :
    IsEndOutput(out[i]) /\ \A j \in (i + 1)..Len(out) : ~IsEndOutput(out[j])

\* no local file header has been completed since then: no entry was pushed
NoEntrySinceEnd ==
  \A j \in (LastEndOutput + 1)..Len(out) : out[j].tag # "lfh.name"

\* below the directory when a zip_end has recorded the offset, and for as
\* long as no entry is added after it
C34_OffsetsOrderedAtEnd ==
  /\ Monotone
  /\ EndBegan => OffsetsBelowDirectory
  /\ (EndHasBegun /\ NoEntrySinceEnd) => OffsetsBelowDirectory

\* zip_end has begun with two entries behind it, the second one 30 bytes
\* and its name and its data after the first
C34_Witness ==
  /\ EndBegan /\ last.ok
  /\ zip_get_num_entries = 2
  /\ entries.data[1].offset = 0
  /\ entries.data[2].offset > 30 + Len(entries.data[1].name)
  /\ central_dir_offset > entries.data[2].offset + 30
  /\ bytes_written > central_dir_offset

(***************************************************************************)
(* C35: the encoder has no finished state.  zip_end changes neither        *)
(* entry_opened nor the entries; after a zip_end that returned true,       *)
(* zip_entry_add, zip_entry_update, zip_entry_end and zip_end do what they *)
(* do with no entry open before it, and a second zip_end writes the        *)
(* central directory file header of each of the N entries and the end      *)
(* record again, with central_dir_offset the bytes_written it found.       *)
(***************************************************************************)
\* a zip_end had returned true before the last call
EndedBefore == \E i \in 1..last.mark : out[i].tag = "eocd.comment_length"

\* what each call does when it finds no entry open, the sink and the
\* adapter never failing
AsWhenIdle ==
  ~last.pre.entry_opened =>
    /\ last.op = "zip_entry_add" =>
         /\ last.ok /\ entry_opened
         /\ zip_get_num_entries = PreLen + 1
         /\ CUR_ENTRY.offset = last.pre.bytes_written
         /\ [i \in 1..Len(Wrote) |-> Wrote[i].tag] = LfhTags
    /\ last.op = "zip_entry_update" => (~last.ok /\ NoCalls /\ Untouched)
    /\ last.op = "zip_entry_end" => (last.ok /\ NoCalls /\ Untouched)
    /\ last.op = "zip_end" =>
         /\ last.ok
         /\ TrailerAt(last.mark + 1, PreLen)
         /\ central_dir_offset = last.pre.bytes_written
         /\ Le32Val(Tail8[7].val) = last.pre.bytes_written
         /\ Le16Val(Tail8[5].val) = PreLen

C35_NoFinishedState ==
  /\ last.op = "zip_end" =>
       /\ entry_opened = last.pre.entry_opened
       /\ entries = last.pre.entries
  /\ AsWhenIdle                    \* whether a zip_end came before or not
  /\ (EndedBefore /\ last.pre.entry_opened) =>
       /\ last.op \in {"zip_entry_add", "zip_end"} =>
            (~last.ok /\ NoCalls /\ Untouched)
       /\ last.op \in {"zip_entry_update", "zip_entry_end"} => last.ok

\* an entry, zip_end, a second entry, zip_end: the second zip_end has
\* written both central directory file headers and the end record at the
\* bytes_written it found
C35_Witness ==
  /\ EndedBefore
  /\ last.op = "zip_end" /\ last.ok
  /\ NumEnds = 2
  /\ zip_get_num_entries = 2
  /\ Len(Wrote) = 18 * 2 + 8
  /\ central_dir_offset = last.pre.bytes_written
  /\ central_dir_offset > last.pre.central_dir_offset
  /\ entries.data[2].offset > last.pre.central_dir_offset

(***************************************************************************)
(* C36: with a sink and an adapter that never fail, and an adapter that    *)
(* leaves room in the output buffer in the end, the loop of _deflate in    *)
(* zip_entry_update and in zip_entry_end terminates from every state       *)
(* reached after zip_init, and zip_entry_end followed by zip_end return    *)
(* true both, with no entry open.                                          *)
(***************************************************************************)
C36_DrainTerminates ==
  /\ (pc # "idle") ~> (pc = "idle" /\ last.ok)
  /\ (pc = "zip_entry_end") ~>
       (pc = "idle" /\ last.op = "zip_entry_end" /\ last.ok /\ ~entry_opened)
  /\ []((last.op = "zip_end" /\ ~last.pre.entry_opened) =>
          /\ last.ok /\ ~entry_opened /\ pc = "idle"
          /\ out[Len(out)].tag = "eocd.comment_length")

\* zip_entry_end drained a full buffer and then three bytes, wrote the
\* descriptor and returned, and the zip_end after it has returned true
C36_Witness ==
  /\ pc = "idle"
  /\ last.op = "zip_end" /\ last.ok
  /\ ~entry_opened
  /\ \E i \in 1..(last.mark - 5) :
       /\ out[i].tag = "deflate" /\ out[i].len = ZIP_INTERNAL_BUFFER_SIZE
       /\ out[i + 1].tag = "deflate" /\ out[i + 1].len = 3
       /\ out[i + 2].tag = "dd.signature"
       /\ last.mark = i + 5

(***************************************************************************)
(* C37: on arrays built by varray_init, varray_push, varray_append and     *)
(* varray_pop of an array that is not empty, varray_append of n elements   *)
(* gives what n calls of varray_push with the same elements in their order *)
(* give: the same elements, the same len and the same capacity; an append  *)
(* of no element changes nothing.                                          *)
(***************************************************************************)
\* varray_push of each element of elems in turn
RECURSIVE PushAll(_, _)
PushAll(va, elems) ==
  IF elems = <<>> THEN va
  ELSE PushAll(varray_push(va, Head(elems)), Tail(elems))

C37_AppendIsPushes ==
  /\ last.op = "varray_append" =>
       /\ entries = PushAll(PreArray, last.arg)
       /\ entries.data = PushAll(PreArray, last.arg).data
       /\ varray_len(entries) = varray_len(PushAll(PreArray, last.arg))
       /\ entries.capacity = PushAll(PreArray, last.arg).capacity
       /\ last.arg = <<>> => entries = PreArray
  /\ \A elems \in AppendElems :
       _varray_append(entries, elems) = PushAll(entries, elems)

\* three elements appended to a full array of capacity 3 that a pop had
\* not emptied: the capacity is 6, as after three pushes
C37_Witness ==
  /\ last.op = "varray_append"
  /\ Len(last.arg) = 3
  /\ PreArray.capacity = 3 /\ varray_len(PreArray) = 3
  /\ \E i \in 2..Len(given) : given[i].op = "varray_pop"
  /\ entries.capacity = 6
  /\ entries = PushAll(PreArray, last.arg)

(***************************************************************************)
(* C38: in every sequence of varray_init, varray_resize to any n >= 0,     *)
(* varray_push, varray_append and varray_pop of an array that is not       *)
(* empty, each element that varray_push or varray_append stores lands at   *)
(* an index below the capacity the call has set, and the loop of           *)
(* varray_append terminates.                                               *)
(***************************************************************************)
C38_WritesInStorage ==
  /\ last.op = "varray_push" => varray_len(PreArray) < entries.capacity
  /\ (last.op = "varray_append" /\ Len(last.arg) > 0) =>
       varray_len(PreArray) + Len(last.arg) <= entries.capacity
  /\ heap.status = "ok"
  /\ pc = "idle"


(***************************************************************************)
(* C39: no call is refused for exceeding a limit of the format.  The       *)
(* offset and the two sizes of an entry are kept in 32 bits and the entry  *)
(* counts of the end of central directory record in 16 bits: once          *)
(* bytes_written or a size has reached 2^32, or the number of entries      *)
(* 2^16, what is recorded in the entry and what is passed to the sink is   *)
(* the limitless value modulo 2^32 (2^16 for the counts), and the call     *)
(* returns true.                                                           *)
(***************************************************************************)
\* a limitless value modulo 2^32, as <<high half, low half>>
Mod32(w) == << w[3], w[4] >>

\* the four bytes of a limitless value modulo 2^32, least significant first
Mod32Bytes(w) == << w[4] % 256, w[4] \div 256, w[3] % 256, w[3] \div 256 >>

\* the two bytes of a count modulo 2^16, least significant first
Mod16Bytes(n) ==
  LET m == n - (65536 * (n \div 65536)) IN << m % 256, m \div 256 >>

RecordedModulo ==
  \A i \in 1..varray_len(entries) :
    /\ entries.data[i].offset = Mod32(given[i].offset)
    /\ entries.data[i].size = Mod32(given[i].size)
    /\ entries.data[i].size_compressed = Mod32(given[i].size_compressed)

DescriptorModulo ==
  last.op = "zip_entry_end" =>
    LET t == given[Len(given)]
    IN  Wrote = << Buf("dd.compressed_size", Mod32Bytes(t.size_compressed)),
                   Buf("dd.uncompressed_size", Mod32Bytes(t.size)) >>

DirectoryModulo ==
  last.op = "zip_end" =>
    LET n == Len(given)
        m == last.mark
    IN  /\ Len(out) = m + (3 * n) + 4
        /\ \A i \in 1..n :
             /\ out[m + (3 * i) - 2] =
                  Buf("cd.compressed_size", Mod32Bytes(given[i].size_compressed))
             /\ out[m + (3 * i) - 1] =
                  Buf("cd.uncompressed_size", Mod32Bytes(given[i].size))
             /\ out[m + (3 * i)] =
                  Buf("cd.local_header_offset", Mod32Bytes(given[i].offset))
        /\ out[m + (3 * n) + 1] = Buf("eocd.num_entries_in_disk", Mod16Bytes(n))
        /\ out[m + (3 * n) + 2] = Buf("eocd.num_entries", Mod16Bytes(n))
        /\ out[m + (3 * n) + 3] =
             Buf("eocd.central_dir_size",
                 Mod32Bytes(SizeSub(bytes_written, central_dir_offset)))
        /\ out[m + (3 * n) + 4] = Buf("eocd.offset", Mod32Bytes(central_dir_offset))

C39_LimitsWrap ==
  /\ last.ok
  /\ RecordedModulo
  /\ DescriptorModulo
  /\ DirectoryModulo

\* zip_end has returned true past 2^32 bytes written, with an entry past
\* 2^32 bytes in and out and an entry added past 2^32 bytes written
C39_Witness ==
  /\ last.op = "zip_end"
  /\ last.ok
  /\ central_dir_offset[2] > 0
  /\ \E i \in 1..Len(given) :
       /\ given[i].size[2] > 0
       /\ given[i].size_compressed[2] > 0
       /\ entries.data[i].size[1] = 0
  /\ \E i \in 1..Len(given) :
       /\ given[i].offset[2] > 0
       /\ entries.data[i].offset[1] = 0

\* zip_end has returned true with 2^16 entries: the counts passed are 0
C39_CountWrapped ==
  /\ last.op = "zip_end"
  /\ last.ok
  /\ varray_len(entries) = 65536
  /\ out[Len(out) - 2].val = << 0, 0 >>

(***************************************************************************)
(* C40: in every reachable state, entry_opened implies that the entries    *)
(* are not empty, so that CUR_ENTRY, their last element, exists whenever   *)
(* zip_entry_update or zip_entry_end reads it, and that element is the     *)
(* entry of the most recent zip_entry_add that pushed one: it has its      *)
(* name and its date and time, and the call changes no other element.      *)
(***************************************************************************)
\* the entry stands for what the zip_entry_add was given
CreatedFrom(e, g) ==
  /\ e.name = [k \in 1..(IF Len(g.filename) < 127 THEN Len(g.filename) ELSE 127)
                 |-> g.filename[k]]
  /\ e.date = _get_dos_date(g.datetime)
  /\ e.time = _get_dos_time(g.datetime)

\* the last call read CUR_ENTRY: zip_entry_update or zip_entry_end with an
\* entry open
ReadCurEntry ==
  /\ last.op \in {"zip_entry_update", "zip_entry_end"}
  /\ last.pre.entry_opened

C40_CurEntryExists ==
  /\ Len(given) = varray_len(entries)
  /\ entry_opened =>
       /\ varray_len(entries) >= 1
       /\ varray_len(entries) \in DOMAIN entries.data
       /\ CreatedFrom(CUR_ENTRY, given[Len(given)])
  /\ ReadCurEntry =>
       LET n == varray_len(last.pre.entries)
       IN  /\ n >= 1
           /\ varray_len(entries) = n
           /\ CreatedFrom(varray_last(last.pre.entries), given[n])
           /\ CreatedFrom(entries.data[n], given[n])
           /\ entries.data[n].offset = last.pre.entries.data[n].offset
           /\ \A i \in 1..(n - 1) : entries.data[i] = last.pre.entries.data[i]

\* zip_entry_update has returned true on the second of two entries with
\* different names
C40_Witness ==
  /\ entry_opened
  /\ ReadCurEntry
  /\ last.op = "zip_entry_update"
  /\ last.ok
  /\ last.arg > 0
  /\ varray_len(entries) = 2
  /\ entries.data[1].name # entries.data[2].name
====
